---- MODULE Spec2Model ----
(***************************************************************************)
(* Bug-Tracker backend: the create_comment saga over the Collection DB     *)
(* (routes/comments.py, repositories/*.py, services/collection_db.py), the *)
(* status / validate handlers over MongoDB (routes/bugs.py), the methods   *)
(* of the document-store client and the repositories' update and list      *)
(* operations.                                                             *)
(***************************************************************************)
EXTENDS Integers, Sequences, FiniteSets, TLC

(* ------------------------------ bounds --------------------------------- *)
\* number of items a listed collection holds at most.
MaxListing == 2
\* datetime.now() is read from a clock that the model stops at MaxClock.
MaxClock == 3
\* number of comments the Collection DB can be asked to create in one run.
MaxAuto == 2

\* concurrent request slots (each runs one handler at a time, then is reused)
Req == {"r1", "r2"}
\* the slots that issue requests to the MongoDB handlers
StatusReq == {"r1"}

(* ------------------------------ datetimes ------------------------------ *)
\* A datetime is a clock reading c: second c \div 2, microsecond 500000 * (c % 2).
UsecOf(c) == 500000 * (c % 2)
SecOf(c) == c \div 2

\* datetime.isoformat(): the microsecond part is printed only when non-zero.
isoformat(c) ==
    IF UsecOf(c) = 0 THEN <<"iso", SecOf(c)>>
                     ELSE <<"iso", SecOf(c), UsecOf(c)>>

\* datetime.fromisoformat(): parses both printed forms.
fromisoformat(w) ==
    IF Len(w) = 3 THEN 2 * w[2] + (w[3] \div 500000) ELSE 2 * w[2]

(* ------------------------- results of a call --------------------------- *)
\* A Python call either returns a value, returns None, or raises.
Value(v) == [kind |-> "value", value |-> v]
None == [kind |-> "none"]
Raise(e) == [kind |-> "raise", exc |-> e]
\* None where a str may stand: an Optional[str] attribute that is not set,
\* an Optional[str] argument the caller left out.
NoneStr == "<None>"

\* Python dicts are functions from keys to values.
EmptyDict == [k \in {} |-> TRUE]
Has(item, k) == k \in DOMAIN item
WithKey(item, k, v) ==
    [x \in (DOMAIN item) \cup {k} |-> IF x = k THEN v ELSE item[x]]
WithoutKey(item, k) == [x \in (DOMAIN item) \ {k} |-> item[x]]

(* --------------------------- Collection DB ----------------------------- *)
\* Identifiers of the shared base collection: one seeded bug, one seeded
\* user, identifiers that address nothing, and the identifiers the store
\* auto-assigns to created items.
SeedBugId == "b1"
SeedUserId == "u1"
MissingBugId == "b9"
MissingUserId == "u9"
BlankId == " "
AutoId(n) == "c" \o ToString(n)
NoItem == [absent |-> TRUE]

\* str.strip() of an identifier: only the blank identifier strips to "".
Strip(id) == IF id = BlankId THEN "" ELSE id

\* The remote store answers a request with a status and a body; status 0
\* stands for a transport failure (no response at all).
Response(status, body) == [status |-> status, body |-> body]

\* Response.is_success: raise_for_status() raises for every other status,
\* redirects and informational answers included.
is_success(status) == status >= 200 /\ status < 300

\* AppFlyteCollectionDB._make_request: raise_for_status, the empty-body case,
\* the 404 -> None translation and the re-raise of every other failure.
CollectionDB_make_request_NotFoundRaises(resp) ==
    IF resp.status = 0 THEN Raise("RequestError")
    ELSE IF ~is_success(resp.status) THEN Raise("HTTPStatusError")
    ELSE IF resp.status = 204 \/ resp.body = EmptyDict THEN Value(EmptyDict)
    ELSE Value(resp.body)

CollectionDB_make_request(resp) ==
    IF resp.status = 0 THEN Raise("RequestError")
    ELSE IF resp.status = 404 THEN None
    ELSE IF ~is_success(resp.status) THEN Raise("HTTPStatusError")
    ELSE IF resp.status = 204 \/ resp.body = EmptyDict THEN Value(EmptyDict)
    ELSE Value(resp.body)

\* The store applies the "$.<key>" path/value pairs of a PUT body to the item.
ApplyUpdates(item, updates) ==
    [k \in (DOMAIN item) \cup (DOMAIN updates) |->
        IF k \in DOMAIN updates THEN updates[k] ELSE item[k]]

\* POST {base}: the store keeps the item under a fresh __auto_id__.
StoredItem(data, id) == WithKey(data, "__auto_id__", id)

\* What the remote store does with one request, given the environment's
\* choice net: "ok" (processed, item returned), "empty" (processed, empty
\* body), "error" (rejected with a non-404 status), "down" (no response).
ServerPost(its, id, data, net) ==
    CASE net = "ok"    -> [items |-> [its EXCEPT ![id] = StoredItem(data, id)],
                           resp |-> Response(200, StoredItem(data, id))]
      [] net = "empty" -> [items |-> [its EXCEPT ![id] = StoredItem(data, id)],
                           resp |-> Response(204, EmptyDict)]
      [] net = "error" -> [items |-> its, resp |-> Response(500, EmptyDict)]
      [] OTHER         -> [items |-> its, resp |-> Response(0, EmptyDict)]

ServerGet(its, id, net) ==
    CASE net = "error" -> Response(500, EmptyDict)
      [] net = "down"  -> Response(0, EmptyDict)
      [] OTHER -> IF id \in DOMAIN its /\ its[id] # NoItem
                  THEN IF net = "empty" THEN Response(204, EmptyDict)
                       ELSE Response(200, its[id])
                  ELSE Response(404, EmptyDict)

ServerPut(its, id, updates, net) ==
    CASE net = "error" -> [items |-> its, resp |-> Response(500, EmptyDict)]
      [] net = "down"  -> [items |-> its, resp |-> Response(0, EmptyDict)]
      [] OTHER ->
           IF id \in DOMAIN its /\ its[id] # NoItem
           THEN [items |-> [its EXCEPT ![id] = ApplyUpdates(@, updates)],
                 resp |-> IF net = "empty" THEN Response(204, EmptyDict)
                          ELSE Response(200, ApplyUpdates(its[id], updates))]
           ELSE [items |-> its, resp |-> Response(404, EmptyDict)]

\* AppFlyteCollectionDB.create_item, after the request was answered.
create_item(data, resp) ==
    LET result == CollectionDB_make_request(resp) IN
    IF result.kind = "none" THEN Raise("ValueError") ELSE result

\* AppFlyteCollectionDB.get_item_by_id: the argument check that precedes
\* the request, and the result of the request.
get_item_by_id_rejects(item_id) == Strip(item_id) = ""
get_item_by_id(resp) == CollectionDB_make_request(resp)

\* AppFlyteCollectionDB.update_item: argument checks, then the request.
update_item_rejects(item_id, updates) ==
    Strip(item_id) = "" \/ updates = None \/ DOMAIN updates = {}
update_item(resp) ==
    LET result == CollectionDB_make_request(resp) IN
    IF result.kind = "none" THEN Raise("ValueError") ELSE result

\* AppFlyteCollectionDB.create_item: the argument check before the request.
create_item_rejects_EmptyToo(data) == data = None \/ data = EmptyDict

create_item_rejects(data) == data = None

\* AppFlyteCollectionDB.delete_item: argument check, then True unless the
\* request was answered 404.
delete_item_rejects(item_id) == Strip(item_id) = ""
delete_item(resp) ==
    LET result == CollectionDB_make_request(resp) IN
    IF result.kind = "raise" THEN result ELSE Value(result.kind # "none")

\* DELETE {base}/{id}
ServerDelete(its, id, net) ==
    CASE net = "error" -> [items |-> its, resp |-> Response(500, EmptyDict)]
      [] net = "down"  -> [items |-> its, resp |-> Response(0, EmptyDict)]
      [] OTHER ->
           IF id \in DOMAIN its /\ its[id] # NoItem
           THEN [items |-> [its EXCEPT ![id] = NoItem],
                 resp |-> IF net = "empty" THEN Response(204, EmptyDict)
                          ELSE Response(200, its[id])]
           ELSE [items |-> its, resp |-> Response(404, EmptyDict)]

\* The remote requests one _make_request call sends: a single
\* self._client.request(...), whatever the answer.
CollectionDB_requests_RetryOnFailure(method, id, body, resp) ==
    IF resp.status = 0 \/ resp.status >= 500
    THEN <<[method |-> method, id |-> id, body |-> body],
           [method |-> method, id |-> id, body |-> body]>>
    ELSE <<[method |-> method, id |-> id, body |-> body]>>

CollectionDB_requests(method, id, body, resp) ==
    <<[method |-> method, id |-> id, body |-> body]>>

\* A JSON body that is a list, and one that is an object.
JList(seq) == [t |-> "list", v |-> seq]
JDict(d) == [t |-> "dict", v |-> d]

\* The payload envelope around an item, and its removal.
Envelope(item) == [payload |-> item]
Unwrap(item) == IF Has(item, "payload") THEN item.payload ELSE item

\* The keys of a nested response, in the order the object lists them.
NestedKeys == <<"k1", "k2">>

\* "for key, value in result.items(): if isinstance(value, list): ..."
RECURSIVE FlattenLists(_, _)
FlattenLists(d, keys) ==
    IF keys = <<>> THEN <<>>
    ELSE (IF Has(d, Head(keys))
          THEN [i \in 1..Len(d[Head(keys)]) |-> Unwrap(d[Head(keys)][i])]
          ELSE <<>>) \o FlattenLists(d, Tail(keys))

\* AppFlyteCollectionDB.get_all_items, after the request was answered.
get_all_items(result) ==
    IF result.kind = "none" THEN Value(<<>>)
    ELSE IF result.kind = "raise" THEN result
    ELSE LET j == result.value IN
         IF j = EmptyDict THEN Value(<<EmptyDict>>)
         ELSE IF j.t = "list" THEN Value(j.v)
         ELSE IF Has(j.v, "items") THEN Value(j.v.items)
         ELSE LET all_items == FlattenLists(j.v, NestedKeys) IN
              IF all_items # <<>> THEN Value(all_items) ELSE Value(<<j.v>>)

(* ------------------------------ codecs --------------------------------- *)
\* Timestamp values on the wire are tagged: <<"iso", ...>> is an ISO-8601
\* string, <<"str", s>> any other string, <<"dt", c>> a datetime object,
\* <<"null">> is None, anything else is another runtime type, which the
\* bug and comment decoders refuse ("else: raise ValueError").
ParseTimestamp(item, k) ==
    IF ~Has(item, k) \/ item[k][1] = "null" THEN None
    ELSE IF item[k][1] = "dt" THEN Value(item[k][2])
    ELSE IF item[k][1] = "iso" THEN Value(fromisoformat(item[k]))
    ELSE Raise("ValueError")

\* A datetime field of a pydantic model that is handed None explicitly.
NullTimestamp(item, k) == Has(item, k) /\ item[k][1] = "null"

\* Required str fields with min_length=1 of a pydantic model.
MissingRequired(item, keys) == \E k \in keys : ~Has(item, k) \/ item[k] = ""

\* CommentRepository._comment_to_collection_item
comment_to_collection_item(comment) ==
    [type |-> "comment", bugId |-> comment.bugId, authorId |-> comment.authorId,
     message |-> comment.message, createdAt |-> isoformat(comment.createdAt)]

\* CommentRepository._collection_item_to_comment, with Comment(**item):
\* __auto_id__ replaces _id, createdAt is parsed, required fields are
\* validated, createdAt may not lie in the future of the clock reading now.
collection_item_to_comment(item0, now) ==
    LET item == IF Has(item0, "__auto_id__")
                THEN WithKey(WithoutKey(item0, "__auto_id__"), "_id", item0["__auto_id__"])
                ELSE item0
        ts == ParseTimestamp(item, "createdAt")
    IN  IF ts.kind = "raise" THEN ts
        ELSE IF MissingRequired(item, {"bugId", "authorId", "message"})
                \/ NullTimestamp(item, "createdAt")
             THEN Raise("ValidationError")
        ELSE IF ts.kind = "value" /\ ts.value > now THEN Raise("ValidationError")
        ELSE Value([id |-> IF Has(item, "_id") THEN item["_id"] ELSE "",
                    bugId |-> item.bugId, authorId |-> item.authorId,
                    message |-> item.message,
                    createdAt |-> IF ts.kind = "value" THEN ts.value ELSE now])

\* BugRepository._collection_item_to_bug, with Bug(**item): __auto_id__ is
\* used only when no _id is present; both timestamps are parsed.
collection_item_to_bug(item0, now) ==
    LET item == IF Has(item0, "__auto_id__") /\ ~Has(item0, "_id")
                THEN WithKey(item0, "_id", item0["__auto_id__"])
                ELSE item0
        c == ParseTimestamp(item, "createdAt")
        u == ParseTimestamp(item, "updatedAt")
    IN  IF c.kind = "raise" THEN c
        ELSE IF u.kind = "raise" THEN u
        ELSE IF MissingRequired(item, {"title", "description", "projectId", "reportedBy",
                                       "priority", "severity"})
                \/ NullTimestamp(item, "createdAt") \/ NullTimestamp(item, "updatedAt")
             THEN Raise("ValidationError")
        ELSE Value([id |-> IF Has(item, "_id") THEN item["_id"] ELSE "",
                    title |-> item.title, description |-> item.description,
                    projectId |-> item.projectId, reportedBy |-> item.reportedBy,
                    priority |-> item.priority, severity |-> item.severity,
                    tags |-> IF Has(item, "tags") THEN item.tags ELSE <<>>,
                    status |-> IF Has(item, "status") THEN item.status ELSE "Open",
                    validated |-> IF Has(item, "validated") THEN item.validated ELSE FALSE,
                    assignedTo |-> IF Has(item, "assignedTo") THEN item.assignedTo ELSE NoneStr,
                    createdAt |-> IF c.kind = "value" THEN c.value ELSE now,
                    updatedAt |-> IF u.kind = "value" THEN u.value ELSE now])

\* UserRepository._collection_item_to_user, with User(...): email and role
\* come from the JSON kept in the description field.
collection_item_to_user(item) ==
    LET data == IF Has(item, "description") THEN item.description ELSE EmptyDict
        name == IF Has(item, "name") THEN item.name ELSE ""
        email == IF Has(data, "email") THEN data.email ELSE ""
        role == IF Has(data, "role") THEN data.role ELSE ""
    IN  IF name = "" \/ email = "" \/ role = "" THEN Raise("ValidationError")
        ELSE Value([id |-> IF Has(item, "__auto_id__") THEN item["__auto_id__"] ELSE "",
                    name |-> name, email |-> email, role |-> role])

\* <Repository>.get_by_id: absent stays absent, anything else is decoded.
repo_get_by_id(result, decoded) ==
    IF result.kind = "value" THEN decoded ELSE result

\* BugRepository.update_fields: the empty-update check and the wire form of
\* the values (datetimes are written with isoformat()).
update_fields_serialize(updates) ==
    [k \in DOMAIN updates |->
        IF k \in {"updatedAt", "createdAt"} THEN isoformat(updates[k]) ELSE updates[k]]

\* The methods class CommentRepository defines.
CommentRepositoryMethods == {"create", "get_by_id", "get_by_bug_id"}

SeedBugItem ==
    [__auto_id__ |-> SeedBugId, type |-> "bug", title |-> "t", description |-> "d",
     projectId |-> "p1", reportedBy |-> SeedUserId, priority |-> "Low",
     severity |-> "Minor", status |-> "Open", validated |-> FALSE,
     createdAt |-> isoformat(0), updatedAt |-> isoformat(0)]
SeedUserItem ==
    [__auto_id__ |-> SeedUserId, name |-> "n",
     description |-> [type |-> "user", email |-> "e", role |-> "tester"]]

(* ------------------------------ MongoDB -------------------------------- *)
\* Path parameters bug_id: the ObjectId of the one stored bug, a well-formed
\* ObjectId that addresses nothing, and a string that is no ObjectId.
SeedMongoId == "m1"
MissingMongoId == "m9"
InvalidObjectId == "zz"
\* The ObjectIds insert_one hands out for the documents created in a run.
CreatedMongoIds == {"m2"}
MongoIds == {SeedMongoId, MissingMongoId} \cup CreatedMongoIds
\* The path parameters sent to the handlers of the stored bug.
PathBugIds == {SeedMongoId, MissingMongoId, InvalidObjectId}
NoDoc == [absent |-> TRUE]

\* validate_object_id: ObjectId(id_str) raises InvalidId -> HTTP 400.
validate_object_id_fails(id_str) == id_str = InvalidObjectId

\* enum BugStatus
BugStatuses == {"Open", "In Progress", "Resolved", "Closed"}

\* The document create_bug inserts: status Open, validated False, no
\* assignee, createdAt = updatedAt = now.
NewBugDoc(now) ==
    [status |-> "Open", validated |-> FALSE, assignedTo |-> "", updatedAt |-> now]

\* userRole values sent by clients, and str.lower() on them.
Roles == {"admin", "tester", "developer", "Admin"}
Lower(role) == IF role = "Admin" THEN "admin" ELSE role

(* ------------------------------- state --------------------------------- *)
VARIABLES
    clock,      \* wall clock read by datetime.now(timezone.utc)
    items,      \* Collection DB base collection: id -> item dict, or NoItem
    nextAuto,   \* next identifier the Collection DB auto-assigns
    db_bugs,    \* MongoDB collection "bugs": ObjectId -> document, or NoDoc
    activities, \* audit trail kept by the activity service (POST /activities)
    req         \* per request slot: handler position, inputs, locals, outcome

vars == <<clock, items, nextAuto, db_bugs, activities, req>>

ItemIds == {SeedBugId, SeedUserId, MissingBugId, MissingUserId, BlankId}
             \cup {AutoId(n) : n \in 1..MaxAuto}

\* An HTTP outcome of a handler: status code and detail text.
Outcome(code, detail) == [code |-> code, detail |-> detail]
NoOutcome == Outcome(0, "")
NoEntity == [absent |-> TRUE]

\* A request slot. calls is the sequence of remote requests the handler has
\* issued; storedId, bugWritten, updRaised and absent record what happened
\* to them (the id the store gave the comment, whether the store applied the
\* bug update, whether update_fields raised, whether a lookup returned None).
\* For the MongoDB handlers: status and role are the request's inputs, found,
\* curStatus and curValidated what find_one returned, decision the verdict
\* of the role checks, wrote whether update_one was applied.
NewRequest(kind, bugId, authorId) ==
    [pc |-> "start", kind |-> kind, bugId |-> bugId, authorId |-> authorId,
     now |-> 0, created |-> NoEntity, calls |-> <<>>, outcome |-> NoOutcome,
     storedId |-> "", bugWritten |-> FALSE, updRaised |-> FALSE, absent |-> FALSE,
     status |-> "", role |-> "", found |-> FALSE, curStatus |-> "",
     curValidated |-> FALSE, decision |-> NoOutcome, wrote |-> FALSE,
     assignedTo |-> ""]

Idle == [NewRequest("none", "", "") EXCEPT !.pc = "idle"]

Free(r) == req[r].pc \in {"idle", "done"}

Done(q, outcome) == [q EXCEPT !.pc = "done", !.outcome = outcome]

NetChoices == {"ok", "empty", "error", "down"}

Init ==
    /\ clock = 0
    /\ items = [i \in ItemIds |->
                  IF i = SeedBugId THEN SeedBugItem
                  ELSE IF i = SeedUserId THEN SeedUserItem
                  ELSE NoItem]
    /\ nextAuto = 1
    /\ db_bugs = [i \in MongoIds |-> IF i = SeedMongoId THEN NewBugDoc(0) ELSE NoDoc]
    /\ activities = {}
    /\ req = [r \in Req |-> Idle]

\* Time passes between any two steps.
Tick ==
    /\ clock < MaxClock
    /\ clock' = clock + 1
    /\ UNCHANGED <<items, nextAuto, db_bugs, activities, req>>

(* --------------------------- create_comment ---------------------------- *)
\* The generic failure of the handler's outer except clause.
CommentFailed == Outcome(500, "Failed to create comment")
\* The failure raised after the rollback attempt, whatever its result.
BugTouchFailed == Outcome(500, "Failed to create comment: bug timestamp update failed")

\* The rollback attempt is followed by the same HTTPException whether or not
\* the delete raised.
CC_RollbackOutcome(rollbackRaised) == BugTouchFailed

\* "if not bug: raise 404" / "if not author: raise 404"; any exception of
\* the lookup reaches the outer except clause.
CC_LookupStep_NoCheck(q, res, detail, nextPc) ==
    IF res.kind = "raise" THEN Done(q, CommentFailed)
    ELSE [q EXCEPT !.pc = nextPc, !.absent = @ \/ (res.kind = "none")]

CC_LookupStep(q, res, detail, nextPc) ==
    CASE res.kind = "none"  -> Done([q EXCEPT !.absent = TRUE], Outcome(404, detail))
      [] res.kind = "raise" -> Done(q, CommentFailed)
      [] OTHER              -> [q EXCEPT !.pc = nextPc]

\* The updates map of the secondary write: {"updatedAt": now}.
CC_TouchUpdates_FreshNow(q, clk) == [updatedAt |-> clk]

CC_TouchUpdates(q, clk) == [updatedAt |-> q.now]

\* The request arrives and the handler looks the parent bug up.
CC_GetBug(r) ==
    /\ Free(r)
    /\ \E bugId \in {SeedBugId, MissingBugId, BlankId},
          authorId \in {SeedUserId, MissingUserId},
          net \in NetChoices :
        LET q == NewRequest("create_comment", bugId, authorId)
            rejected == get_item_by_id_rejects(bugId)
            result == IF rejected THEN Raise("ValueError")
                      ELSE get_item_by_id(ServerGet(items, bugId, net))
            bug == repo_get_by_id(result,
                       IF result.kind = "value"
                       THEN collection_item_to_bug(result.value, clock) ELSE None)
            q1 == [q EXCEPT !.calls = IF rejected THEN @ ELSE Append(@, "GET")]
        IN  req' = [req EXCEPT ![r] =
                       CC_LookupStep(q1, bug, "Bug not found", "get_author")]
    /\ UNCHANGED <<clock, items, nextAuto, db_bugs, activities>>

\* The handler looks the author up. When the author exists the handler goes
\* on without yielding: it reads now, builds the Comment with createdAt = now
\* and CommentRepository.create encodes it and sends the POST; the handler
\* yields only there, in the await of the request.
CC_GetAuthor(r) ==
    /\ req[r].kind = "create_comment" /\ req[r].pc = "get_author"
    /\ \E net \in NetChoices :
        LET q == req[r]
            rejected == get_item_by_id_rejects(q.authorId)
            result == IF rejected THEN Raise("ValueError")
                      ELSE get_item_by_id(ServerGet(items, q.authorId, net))
            author == repo_get_by_id(result,
                       IF result.kind = "value"
                       THEN collection_item_to_user(result.value) ELSE None)
            q1 == [q EXCEPT !.calls = IF rejected THEN @ ELSE Append(@, "GET")]
            q2 == CC_LookupStep(q1, author, "User not found", "create")
        IN  req' = [req EXCEPT ![r] =
                       IF q2.pc = "create"
                       THEN [q2 EXCEPT !.now = clock]
                       ELSE q2]
    /\ UNCHANGED <<clock, items, nextAuto, db_bugs, activities>>

\* The store handles the POST that is in flight, which carries the
\* createdAt read before it was sent, and CommentRepository.create decodes
\* the response. Time has passed and other handlers have run since the
\* clock was read.
CC_Create(r) ==
    /\ req[r].kind = "create_comment" /\ req[r].pc = "create"
    /\ nextAuto <= MaxAuto
    /\ \E net \in NetChoices :
        LET q == req[r]
            comment == [bugId |-> q.bugId, authorId |-> q.authorId,
                        message |-> "m", createdAt |-> q.now]
            id == AutoId(nextAuto)
            srv == ServerPost(items, id, comment_to_collection_item(comment), net)
            result == create_item(comment_to_collection_item(comment), srv.resp)
            created == IF result.kind = "value"
                       THEN collection_item_to_comment(result.value, clock)
                       ELSE result
            stored == srv.items[id] # NoItem
            q1 == [q EXCEPT !.calls = Append(@, "POST"),
                            !.storedId = IF stored THEN id ELSE ""]
        IN  /\ items' = srv.items
            /\ nextAuto' = IF stored THEN nextAuto + 1 ELSE nextAuto
            /\ req' = [req EXCEPT ![r] =
                  IF created.kind = "value"
                  THEN [q1 EXCEPT !.pc = "update_bug", !.created = created.value]
                  ELSE Done(q1, CommentFailed)]
    /\ UNCHANGED <<clock, db_bugs, activities>>

\* The compensating action of the handler: comment_repository.delete(id).
\* CommentRepository defines no delete, so the call raises AttributeError
\* before any request is sent; the handler logs it and goes on.
CC_RollbackRaises == "delete" \notin CommentRepositoryMethods

\* BugRepository.update_fields(bugId, {"updatedAt": now}); on any failure
\* the rollback is attempted and the handler fails, otherwise it answers
\* 201 with the created comment.
CC_UpdateBug(r) ==
    /\ req[r].kind = "create_comment" /\ req[r].pc = "update_bug"
    /\ \E net \in NetChoices :
        LET q == req[r]
            updates == update_fields_serialize(CC_TouchUpdates(q, clock))
            rejected == update_item_rejects(q.bugId, updates)
            srv == IF rejected THEN [items |-> items, resp |-> Response(0, EmptyDict)]
                   ELSE ServerPut(items, q.bugId, updates, net)
            result == IF rejected THEN Raise("ValueError") ELSE update_item(srv.resp)
            bug == IF result.kind = "value"
                   THEN collection_item_to_bug(result.value, clock) ELSE result
            q1 == [q EXCEPT !.calls = IF rejected THEN @ ELSE Append(@, "PUT"),
                            !.bugWritten = (~rejected /\ is_success(srv.resp.status)),
                            !.updRaised = (bug.kind # "value")]
        IN  IF bug.kind = "value"
            THEN /\ items' = srv.items
                 /\ req' = [req EXCEPT ![r] =
                        IF q.created.id = "" THEN Done(q1, CommentFailed)
                        ELSE Done(q1, Outcome(201, "created"))]
            ELSE /\ items' = IF CC_RollbackRaises THEN srv.items
                             ELSE [srv.items EXCEPT ![q.created.id] = NoItem]
                 /\ req' = [req EXCEPT ![r] =
                        Done(q1, CC_RollbackOutcome(CC_RollbackRaises))]
    /\ UNCHANGED <<clock, nextAuto, db_bugs, activities>>

NextComment ==
    \/ Tick
    \/ \E r \in Req : CC_GetBug(r)
    \/ \E r \in Req : CC_GetAuthor(r)
    \/ \E r \in Req : CC_Create(r)
    \/ \E r \in Req : CC_UpdateBug(r)

(* ------------------------- update_bug_status --------------------------- *)
\* pymongo calls are synchronous: from find_one to update_one the handler
\* never yields, so no other handler of the process runs in between. The
\* handler yields once, at "await log_activity".
Allow == Outcome(200, "allow")
StatusFailed == Outcome(500, "Failed to update bug status")

\* The role checks of update_bug_status on (current status, requested
\* status, lower-cased role, validated flag of the document read).
TransitionPolicy_NoClosedGuard(current, new, role, validated) ==
    IF new = "Closed" /\ role \notin {"tester", "admin"}
    THEN Outcome(403, "Only Testers can close bugs")
    ELSE IF new = "Closed" /\ ~validated
    THEN Outcome(400, "Bug must be validated before closing")
    ELSE Allow

TransitionPolicy_AnyoneCloses(current, new, role, validated) ==
    IF current = "Closed" /\ role # "admin"
    THEN Outcome(403, "Only Admin can modify closed bugs")
    ELSE IF new = "Closed" /\ ~validated
    THEN Outcome(400, "Bug must be validated before closing")
    ELSE Allow

TransitionPolicy_NoValidatedCheck(current, new, role, validated) ==
    IF current = "Closed" /\ role # "admin"
    THEN Outcome(403, "Only Admin can modify closed bugs")
    ELSE IF new = "Closed" /\ role \notin {"tester", "admin"}
    THEN Outcome(403, "Only Testers can close bugs")
    ELSE Allow

TransitionPolicy_ForwardOnly(current, new, role, validated) ==
    IF current = "Closed" /\ role # "admin"
    THEN Outcome(403, "Only Admin can modify closed bugs")
    ELSE IF new = "Closed" /\ role \notin {"tester", "admin"}
    THEN Outcome(403, "Only Testers can close bugs")
    ELSE IF new = "Closed" /\ ~validated
    THEN Outcome(400, "Bug must be validated before closing")
    ELSE IF new = "Open" /\ current # "Open" /\ role # "admin"
    THEN Outcome(403, "Only Admin can reopen bugs")
    ELSE Allow

TransitionPolicy(current, new, role, validated) ==
    IF current = "Closed" /\ role # "admin"
    THEN Outcome(403, "Only Admin can modify closed bugs")
    ELSE IF new = "Closed" /\ role \notin {"tester", "admin"}
    THEN Outcome(403, "Only Testers can close bugs")
    ELSE IF new = "Closed" /\ ~validated
    THEN Outcome(400, "Bug must be validated before closing")
    ELSE Allow

\* bug_doc.get("status") and bug_doc.get("validated", False)
DocGet(doc, k, default) == IF Has(doc, k) THEN doc[k] ELSE default

\* collection.update_one({"_id": id}, {"$set": fields})
UpdateOne_KeepNewer(db, id, fields) ==
    IF db[id] = NoDoc \/ db[id].updatedAt >= fields.updatedAt THEN db
    ELSE [db EXCEPT ![id] = ApplyUpdates(@, fields)]

UpdateOne(db, id, fields) ==
    IF db[id] = NoDoc THEN db ELSE [db EXCEPT ![id] = ApplyUpdates(@, fields)]

\* What the activity service has recorded after one POST /activities.
Activity(r, action, bugId) == [userId |-> r, action |-> action, resourceId |-> bugId]

\* The request arrives; the handler validates the id, reads the bug, applies
\* the role checks and, when they pass, writes status and updatedAt and
\* sends the activity. dbRead / dbWrite: whether MongoDB answers the call.
SU_HandleIn(r, bugIds, statuses, roles, dbAnswers) ==
    /\ Free(r)
    /\ \E bug_id \in bugIds, status \in statuses,
          userRole \in roles, dbRead \in dbAnswers, dbWrite \in dbAnswers :
        LET q0 == [NewRequest("update_status", bug_id, r) EXCEPT
                      !.status = status, !.role = userRole]
        IN  IF validate_object_id_fails(bug_id)
            THEN /\ req' = [req EXCEPT ![r] = Done(q0, Outcome(400, "Invalid ObjectId format"))]
                 /\ UNCHANGED db_bugs
            ELSE IF dbRead = "down"
            THEN /\ req' = [req EXCEPT ![r] = Done(q0, StatusFailed)]
                 /\ UNCHANGED db_bugs
            ELSE IF db_bugs[bug_id] = NoDoc
            THEN /\ req' = [req EXCEPT ![r] = Done(q0, Outcome(404, "Bug not found"))]
                 /\ UNCHANGED db_bugs
            ELSE
              LET bug_doc == db_bugs[bug_id]
                  current_status == DocGet(bug_doc, "status", "")
                  validated == DocGet(bug_doc, "validated", FALSE)
                  decision == TransitionPolicy(current_status, status,
                                               Lower(userRole), validated)
                  q1 == [q0 EXCEPT !.found = TRUE, !.curStatus = current_status,
                                   !.curValidated = validated, !.decision = decision]
              IN  IF decision # Allow
                  THEN /\ req' = [req EXCEPT ![r] = Done(q1, decision)]
                       /\ UNCHANGED db_bugs
                  ELSE IF dbWrite = "down"
                  THEN /\ req' = [req EXCEPT ![r] = Done(q1, StatusFailed)]
                       /\ UNCHANGED db_bugs
                  ELSE /\ db_bugs' = UpdateOne(db_bugs, bug_id,
                                        [status |-> status, updatedAt |-> clock])
                       /\ req' = [req EXCEPT ![r] =
                              [q1 EXCEPT !.pc = "su_log", !.wrote = TRUE, !.now = clock]]
    /\ UNCHANGED <<clock, items, nextAuto, activities>>

SU_Handle(r) ==
    SU_HandleIn(r, PathBugIds, BugStatuses, Roles, {"ok", "down"})

\* AppFlyteClient.log_activity returns: "ok" the activity was recorded,
\* "error" the request failed with an httpx.HTTPError (caught, False is
\* returned), "badjson" it was recorded but the response body is no JSON
\* (response.json() raises a ValueError, which log_activity does not catch).
\* Then the handler re-reads the bug and answers.
SU_LogIn(r, logNets, dbAnswers) ==
    /\ req[r].kind = "update_status" /\ req[r].pc = "su_log"
    /\ \E logNet \in logNets, dbRead \in dbAnswers :
        /\ activities' = IF logNet = "error" THEN activities
                         ELSE activities \cup {Activity(r, "status_changed", req[r].bugId)}
        /\ req' = [req EXCEPT ![r] =
              IF logNet = "badjson" \/ dbRead = "down" THEN Done(@, StatusFailed)
              ELSE Done(@, Outcome(200, "Bug status updated"))]
    /\ UNCHANGED <<clock, items, nextAuto, db_bugs>>

SU_Log(r) == SU_LogIn(r, {"ok", "error", "badjson"}, {"ok", "down"})

(* ----------------------------- validate_bug ---------------------------- *)
ValidateFailed == Outcome(500, "Failed to validate bug")

\* The role gate of validate_bug, on the raw userRole form field.
ValidateGate_AnyRole(userRole) == Allow

ValidateGate(userRole) ==
    IF Lower(userRole) \notin {"tester", "admin"}
    THEN Outcome(403, "Only Testers can validate bugs")
    ELSE Allow

VB_HandleIn(r, bugIds, roles, dbAnswers) ==
    /\ Free(r)
    /\ \E bug_id \in bugIds, userRole \in roles,
          dbRead \in dbAnswers, dbWrite \in dbAnswers :
        LET q0 == [NewRequest("validate", bug_id, r) EXCEPT !.role = userRole]
            q1 == [q0 EXCEPT !.decision = ValidateGate(userRole)]
        IN  IF validate_object_id_fails(bug_id)
            THEN /\ req' = [req EXCEPT ![r] = Done(q0, Outcome(400, "Invalid ObjectId format"))]
                 /\ UNCHANGED db_bugs
            ELSE IF ValidateGate(userRole) # Allow
            THEN /\ req' = [req EXCEPT ![r] = Done(q1, ValidateGate(userRole))]
                 /\ UNCHANGED db_bugs
            ELSE IF dbRead = "down"
            THEN /\ req' = [req EXCEPT ![r] = Done(q1, ValidateFailed)]
                 /\ UNCHANGED db_bugs
            ELSE IF db_bugs[bug_id] = NoDoc
            THEN /\ req' = [req EXCEPT ![r] = Done(q1, Outcome(404, "Bug not found"))]
                 /\ UNCHANGED db_bugs
            ELSE IF dbWrite = "down"
            THEN /\ req' = [req EXCEPT ![r] = Done([q1 EXCEPT !.found = TRUE], ValidateFailed)]
                 /\ UNCHANGED db_bugs
            ELSE /\ db_bugs' = UpdateOne(db_bugs, bug_id,
                                   [validated |-> TRUE, updatedAt |-> clock])
                 /\ req' = [req EXCEPT ![r] =
                        [q1 EXCEPT !.pc = "vb_log", !.found = TRUE, !.wrote = TRUE,
                                   !.now = clock]]
    /\ UNCHANGED <<clock, items, nextAuto, activities>>

VB_Handle(r) ==
    VB_HandleIn(r, PathBugIds, Roles, {"ok", "down"})

VB_LogIn(r, logNets, dbAnswers) ==
    /\ req[r].kind = "validate" /\ req[r].pc = "vb_log"
    /\ \E logNet \in logNets, dbRead \in dbAnswers :
        /\ activities' = IF logNet = "error" THEN activities
                         ELSE activities \cup {Activity(r, "bug_validated", req[r].bugId)}
        /\ req' = [req EXCEPT ![r] =
              IF logNet = "badjson" \/ dbRead = "down" THEN Done(@, ValidateFailed)
              ELSE Done(@, Outcome(200, "Bug validated successfully"))]
    /\ UNCHANGED <<clock, items, nextAuto, db_bugs>>

VB_Log(r) == VB_LogIn(r, {"ok", "error", "badjson"}, {"ok", "down"})

(* ------------------------------ assign_bug ----------------------------- *)
AssignFailed == Outcome(500, "Failed to assign bug")

\* The users the AppFlyte user system knows.
KnownUsers == {SeedUserId, "u2"}

\* AppFlyteClient.get_user: the user's data, None for a 404, any other
\* failure is raised.
get_user(user_id, net) ==
    IF net = "error" THEN Raise("HTTPError")
    ELSE IF user_id \in KnownUsers THEN Value([id |-> user_id]) ELSE None

\* The fields assign_bug sets.
assign_fields_WithStatus(assignedTo, now) ==
    [assignedTo |-> assignedTo, updatedAt |-> now, status |-> "In Progress"]

assign_fields(assignedTo, now) == [assignedTo |-> assignedTo, updatedAt |-> now]

\* The request arrives; the handler validates the id and reads the bug,
\* then awaits get_user.
AB_HandleIn(r, bugIds, assignees, dbAnswers) ==
    /\ Free(r)
    /\ \E bug_id \in bugIds, assignedTo \in assignees, dbRead \in dbAnswers :
        LET q0 == [NewRequest("assign", bug_id, r) EXCEPT !.assignedTo = assignedTo]
        IN  req' = [req EXCEPT ![r] =
                IF validate_object_id_fails(bug_id)
                THEN Done(q0, Outcome(400, "Invalid ObjectId format"))
                ELSE IF dbRead = "down" THEN Done(q0, AssignFailed)
                ELSE IF db_bugs[bug_id] = NoDoc THEN Done(q0, Outcome(404, "Bug not found"))
                ELSE [q0 EXCEPT !.pc = "ab_user", !.found = TRUE]]
    /\ UNCHANGED <<clock, items, nextAuto, db_bugs, activities>>

AB_Handle(r) ==
    AB_HandleIn(r, PathBugIds, KnownUsers \cup {MissingUserId},
                {"ok", "down"})

\* get_user has answered: without assignee the request ends with 404,
\* otherwise assignedTo and updatedAt are written and the activity is sent.
AB_AssignIn(r, userNets, dbAnswers) ==
    /\ req[r].kind = "assign" /\ req[r].pc = "ab_user"
    /\ \E userNet \in userNets, dbWrite \in dbAnswers :
        LET assignee == get_user(req[r].assignedTo, userNet) IN
        IF assignee.kind = "raise" \/ (assignee.kind = "value" /\ dbWrite = "down")
        THEN /\ req' = [req EXCEPT ![r] = Done(@, AssignFailed)]
             /\ UNCHANGED db_bugs
        ELSE IF assignee.kind = "none"
        THEN /\ req' = [req EXCEPT ![r] = Done(@, Outcome(404, "User not found"))]
             /\ UNCHANGED db_bugs
        ELSE /\ db_bugs' = UpdateOne(db_bugs, req[r].bugId,
                                     assign_fields(req[r].assignedTo, clock))
             /\ req' = [req EXCEPT ![r] = [@ EXCEPT !.pc = "ab_log", !.wrote = TRUE,
                                                    !.now = clock]]
    /\ UNCHANGED <<clock, items, nextAuto, activities>>

AB_Assign(r) == AB_AssignIn(r, {"ok", "error"}, {"ok", "down"})

\* log_activity has returned; the handler re-reads the bug and answers.
AB_LogIn(r, logNets, dbAnswers) ==
    /\ req[r].kind = "assign" /\ req[r].pc = "ab_log"
    /\ \E logNet \in logNets, dbRead \in dbAnswers :
        /\ activities' = IF logNet = "error" THEN activities
                         ELSE activities \cup {Activity(r, "bug_assigned", req[r].bugId)}
        /\ req' = [req EXCEPT ![r] =
              IF logNet = "badjson" \/ dbRead = "down" THEN Done(@, AssignFailed)
              ELSE Done(@, Outcome(200, "Bug assigned"))]
    /\ UNCHANGED <<clock, items, nextAuto, db_bugs>>

AB_Log(r) == AB_LogIn(r, {"ok", "error", "badjson"}, {"ok", "down"})

(* ------------------------------ create_bug ----------------------------- *)
CreateFailed == Outcome(500, "Failed to create bug")

\* Form fields of POST /api/bugs: a title (the Bug model refuses ""), a
\* priority (BugPriority has no "Urgent"), and the attached files: none, one
\* without filename, one with an extension that is not allowed, one image.
CreateTitles == {"t", ""}
CreatePriorities == {"Low", "Urgent"}
CreateFiles == {"none", "noname", "badext", "image"}
\* The project check: skipped under DEV_MODE, otherwise get_project finds
\* the project, gets a 404, or fails.
ProjectChecks == {"skipped", "exists", "absent", "error"}

\* The attachment loop up to the upload: validate_file is called with
\* file_size=None, so a file with an allowed extension reaches
\* "file_size > self._max_file_size", a TypeError, which the loop turns
\* into a 500; no file is ever uploaded.
create_bug_files(files) ==
    CASE files = "none" -> Allow
      [] files = "noname" -> Outcome(400, "File must have a filename")
      [] files = "badext" -> Outcome(400, "Invalid file type")
      [] OTHER -> Outcome(500, "Failed to upload file")

\* The checks of create_bug before the Bug is built, in the handler's order.
create_bug_checks(project, priority, files) ==
    IF project = "absent" THEN Outcome(404, "Project not found")
    ELSE IF project = "error" THEN CreateFailed
    ELSE IF priority \notin {"Low", "Medium", "High", "Critical"}
    THEN Outcome(400, "Invalid priority or severity value")
    ELSE create_bug_files(files)

\* insert_one: the document is stored under an ObjectId no document has.
InsertOne(db, id, doc) == [db EXCEPT ![id] = doc]

\* The request arrives; the handler checks the project, the enums and the
\* files, builds the Bug (status Open, validated False, both timestamps
\* now), inserts it and answers 201. The awaits before the insert touch
\* neither store, and from the clock reading to insert_one the handler
\* does not yield.
CB_HandleIn(r, projects, priorities, fileSets, titles, dbAnswers) ==
    /\ Free(r)
    /\ \E id \in CreatedMongoIds : db_bugs[id] = NoDoc
    /\ \E project \in projects, priority \in priorities, files \in fileSets,
          title \in titles, dbWrite \in dbAnswers :
        LET q0 == NewRequest("create_bug", "", r)
            checks == create_bug_checks(project, priority, files)
            id == CHOOSE i \in CreatedMongoIds : db_bugs[i] = NoDoc
        IN  IF checks # Allow
            THEN /\ req' = [req EXCEPT ![r] = Done([q0 EXCEPT !.decision = checks], checks)]
                 /\ UNCHANGED db_bugs
            ELSE IF title = "" \/ dbWrite = "down"
            THEN /\ req' = [req EXCEPT ![r] = Done(q0, CreateFailed)]
                 /\ UNCHANGED db_bugs
            ELSE /\ db_bugs' = InsertOne(db_bugs, id, NewBugDoc(clock))
                 /\ req' = [req EXCEPT ![r] =
                        Done([q0 EXCEPT !.bugId = id, !.wrote = TRUE, !.now = clock],
                             Outcome(201, "created"))]
    /\ UNCHANGED <<clock, items, nextAuto, activities>>

CB_Handle(r) ==
    CB_HandleIn(r, ProjectChecks, CreatePriorities, CreateFiles, CreateTitles,
                {"ok", "down"})

\* One slot creates bugs, with every outcome of the handler's checks, and
\* sends status updates for the created bug while time passes.
SU_HandleCreated(r) ==
    SU_HandleIn(r, CreatedMongoIds, {"Resolved", "Closed"}, {"tester"}, {"ok"})

NextCreate ==
    \/ Tick
    \/ \E r \in StatusReq : CB_Handle(r)
    \/ \E r \in StatusReq : SU_HandleCreated(r)
    \/ \E r \in StatusReq : SU_Log(r)

NextStatus ==
    \/ Tick
    \/ \E r \in StatusReq : SU_Handle(r)
    \/ \E r \in StatusReq : SU_Log(r)
    \/ \E r \in StatusReq : VB_Handle(r)
    \/ \E r \in StatusReq : VB_Log(r)

(* ---------------------------- BugRepository ---------------------------- *)
\* The slot that calls the repository methods directly.
RepoReq == {"r1"}

\* One call of a repository method: its arguments, the remote requests it
\* issued (method, id, body) and what it returned or raised.
RepoCall(op, bug_id, target, value, updated_at) ==
    [pc |-> "done", kind |-> op, bugId |-> bug_id, target |-> target,
     value |-> value, updated_at |-> updated_at, requests |-> <<>>, result |-> None]

\* The updates maps of update_status / update_assignment / update_validation.
update_status_updates_NoTimestamp(status, updated_at) == [status |-> status]

update_status_updates(status, updated_at) ==
    [status |-> status, updatedAt |-> isoformat(updated_at)]

update_assignment_updates(assigned_to, updated_at) ==
    [assignedTo |-> assigned_to, updatedAt |-> isoformat(updated_at)]

update_validation_updates(validated, updated_at) ==
    [validated |-> validated, updatedAt |-> isoformat(updated_at)]

\* "updated_item = await self._service.update_item(...)" followed by
\* "return self._collection_item_to_bug(updated_item)".
BugRepo_Update(r, q, updates) ==
    \E net \in NetChoices :
        IF update_item_rejects(q.bugId, updates)
        THEN /\ req' = [req EXCEPT ![r] = [q EXCEPT !.result = Raise("ValueError")]]
             /\ UNCHANGED items
        ELSE LET server == ServerPut(items, q.bugId, updates, net)
                 res == update_item(server.resp)
             IN  /\ items' = server.items
                 /\ req' = [req EXCEPT ![r] =
                        [q EXCEPT !.requests = CollectionDB_requests("PUT", q.bugId,
                                                        updates, server.resp),
                                  !.result = IF res.kind = "value"
                                             THEN collection_item_to_bug(res.value, clock)
                                             ELSE res]]

RepoBugIds == {SeedBugId, MissingBugId, BlankId}
\* updated_at arguments: the earliest, an inner and the latest clock reading.
RepoTimes == {0, 1, MaxClock}
Assignees == {SeedUserId, "u2"}

BugRepo_update_status(r) ==
    /\ Free(r)
    /\ \E bug_id \in RepoBugIds, status \in BugStatuses, updated_at \in RepoTimes :
         BugRepo_Update(r, RepoCall("update_status", bug_id, "status", status, updated_at),
                        update_status_updates(status, updated_at))
    /\ UNCHANGED <<clock, nextAuto, db_bugs, activities>>

BugRepo_update_assignment(r) ==
    /\ Free(r)
    /\ \E bug_id \in RepoBugIds, assigned_to \in Assignees, updated_at \in RepoTimes :
         BugRepo_Update(r, RepoCall("update_assignment", bug_id, "assignedTo",
                                    assigned_to, updated_at),
                        update_assignment_updates(assigned_to, updated_at))
    /\ UNCHANGED <<clock, nextAuto, db_bugs, activities>>

BugRepo_update_validation(r) ==
    /\ Free(r)
    /\ \E bug_id \in RepoBugIds, validated \in BOOLEAN, updated_at \in RepoTimes :
         BugRepo_Update(r, RepoCall("update_validation", bug_id, "validated",
                                    validated, updated_at),
                        update_validation_updates(validated, updated_at))
    /\ UNCHANGED <<clock, nextAuto, db_bugs, activities>>

\* BugRepository.get_by_id: one GET, None stays None, an item is decoded.
BugRepo_get_by_id(r) ==
    /\ Free(r)
    /\ \E bug_id \in RepoBugIds, net \in NetChoices :
        LET q == RepoCall("get_by_id", bug_id, "", "", 0)
            resp == ServerGet(items, bug_id, net)
            res == get_item_by_id(resp)
        IN  req' = [req EXCEPT ![r] =
                IF get_item_by_id_rejects(bug_id)
                THEN [q EXCEPT !.result = Raise("ValueError")]
                ELSE [q EXCEPT !.requests = CollectionDB_requests("GET", bug_id,
                                                                  EmptyDict, resp),
                               !.result = IF res.kind = "value"
                                          THEN collection_item_to_bug(res.value, clock)
                                          ELSE res]]
    /\ UNCHANGED <<clock, items, nextAuto, db_bugs, activities>>

NextRepo ==
    \/ \E r \in RepoReq : BugRepo_update_status(r)
    \/ \E r \in RepoReq : BugRepo_update_assignment(r)
    \/ \E r \in RepoReq : BugRepo_update_validation(r)
    \/ \E r \in RepoReq : BugRepo_get_by_id(r)

(* ------------------------ AppFlyteCollectionDB ------------------------- *)
\* The slot that calls the document-store client directly.
ClientReq == {"r1"}

\* One call of a client method: the id and the other argument it was given,
\* the remote requests it issued, the status the store answered with (-1
\* when nothing was sent), what the call returned or raised, and (for
\* get_all_items) the items the response contained.
ClientCall(op, item_id, arg) ==
    [pc |-> "done", kind |-> op, id |-> item_id, arg |-> arg,
     requests |-> <<>>, answer |-> -1, result |-> None, contained |-> <<>>]

\* Non-success statuses other than 404, and the answers that carry them
\* (status 0: no answer at all).
ErrorStatuses == {302, 400, 403, 500, 503}
FailureResponses == {Response(st, EmptyDict) : st \in ErrorStatuses \cup {0}}

\* Arguments of the calls: data of create_item, updates of update_item.
CreateData == {None, EmptyDict, [type |-> "comment", message |-> "m"]}
UpdateData == {None, EmptyDict, [status |-> "Resolved"]}
ClientIds == {SeedBugId, MissingBugId, BlankId, ""}

Client_create_item(r) ==
    /\ Free(r) /\ nextAuto <= MaxAuto
    /\ \E data \in CreateData, net \in NetChoices \cup {"absent"} :
        LET q == ClientCall("create_item", "", data)
            server == IF net = "absent"
                      THEN [items |-> items, resp |-> Response(404, EmptyDict)]
                      ELSE ServerPost(items, AutoId(nextAuto), data, net)
        IN  IF create_item_rejects(data)
            THEN /\ req' = [req EXCEPT ![r] = [q EXCEPT !.result = Raise("ValueError")]]
                 /\ UNCHANGED <<items, nextAuto>>
            ELSE /\ items' = server.items
                 /\ nextAuto' = IF server.items # items THEN nextAuto + 1 ELSE nextAuto
                 /\ req' = [req EXCEPT ![r] =
                        [q EXCEPT !.requests = CollectionDB_requests("POST", "", data,
                                                                     server.resp),
                                  !.answer = server.resp.status,
                                  !.result = create_item(data, server.resp)]]
    /\ UNCHANGED <<clock, db_bugs, activities>>

Client_get_item_by_id(r) ==
    /\ Free(r)
    /\ \E item_id \in ClientIds :
       \E resp \in {ServerGet(items, item_id, net) : net \in NetChoices}
                     \cup FailureResponses :
        LET q == ClientCall("get_item_by_id", item_id, "") IN
        req' = [req EXCEPT ![r] =
            IF get_item_by_id_rejects(item_id)
            THEN [q EXCEPT !.result = Raise("ValueError")]
            ELSE [q EXCEPT !.requests = CollectionDB_requests("GET", item_id,
                                                              EmptyDict, resp),
                           !.answer = resp.status,
                           !.result = get_item_by_id(resp)]]
    /\ UNCHANGED <<clock, items, nextAuto, db_bugs, activities>>

Client_update_item(r) ==
    /\ Free(r)
    /\ \E item_id \in ClientIds, updates \in UpdateData :
       \E server \in {ServerPut(items, item_id, updates, net) : net \in NetChoices}
                       \cup {[items |-> items, resp |-> f] : f \in FailureResponses} :
        LET q == ClientCall("update_item", item_id, updates) IN
        IF update_item_rejects(item_id, updates)
        THEN /\ req' = [req EXCEPT ![r] = [q EXCEPT !.result = Raise("ValueError")]]
             /\ UNCHANGED items
        ELSE /\ items' = server.items
             /\ req' = [req EXCEPT ![r] =
                    [q EXCEPT !.requests = CollectionDB_requests("PUT", item_id, updates,
                                                                 server.resp),
                              !.answer = server.resp.status,
                              !.result = update_item(server.resp)]]
    /\ UNCHANGED <<clock, nextAuto, db_bugs, activities>>

Client_delete_item(r) ==
    /\ Free(r)
    /\ \E item_id \in {AutoId(1), SeedUserId, MissingBugId, BlankId} :
       \E server \in {ServerDelete(items, item_id, net) : net \in NetChoices}
                       \cup {[items |-> items, resp |-> f] : f \in FailureResponses} :
        LET q == ClientCall("delete_item", item_id, "") IN
        IF delete_item_rejects(item_id)
        THEN /\ req' = [req EXCEPT ![r] = [q EXCEPT !.result = Raise("ValueError")]]
             /\ UNCHANGED items
        ELSE /\ items' = server.items
             /\ req' = [req EXCEPT ![r] =
                    [q EXCEPT !.requests = CollectionDB_requests("DELETE", item_id,
                                                                 EmptyDict, server.resp),
                              !.answer = server.resp.status,
                              !.result = delete_item(server.resp)]]
    /\ UNCHANGED <<clock, nextAuto, db_bugs, activities>>

\* The items a collection holds, in the order the store lists them: the
\* base collection "" holds the stored items, "empty" holds none.
ListingOrder == <<SeedBugId, SeedUserId>> \o [n \in 1..MaxAuto |-> AutoId(n)]
RECURSIVE StoredItems(_, _)
StoredItems(its, ids) ==
    IF ids = <<>> THEN <<>>
    ELSE (IF its[Head(ids)] # NoItem THEN <<its[Head(ids)]>> ELSE <<>>)
             \o StoredItems(its, Tail(ids))
CollectionItems(its, collection) ==
    IF collection = "" THEN StoredItems(its, ListingOrder) ELSE <<>>

\* The response shapes of GET {base}/{collection}: a flat list, an object
\* with an "items" list, an object mapping keys to lists of items, the same
\* with every item in a payload envelope.
Shapes == {"list", "items", "nested", "payload"}
FirstHalf(seq) == SubSeq(seq, 1, (Len(seq) + 1) \div 2)
SecondHalf(seq) == SubSeq(seq, (Len(seq) + 1) \div 2 + 1, Len(seq))
Wrapped(seq) == [i \in 1..Len(seq) |-> Envelope(seq[i])]
ShapedBody(seq, shape) ==
    CASE shape = "list"   -> JList(seq)
      [] shape = "items"  -> JDict([items |-> seq])
      [] shape = "nested" -> JDict([k1 |-> FirstHalf(seq), k2 |-> SecondHalf(seq)])
      [] OTHER            -> JDict([k1 |-> Wrapped(FirstHalf(seq)),
                                    k2 |-> Wrapped(SecondHalf(seq))])

ServerGetAll(its, collection, shape, net) ==
    CASE net = "error" -> Response(500, EmptyDict)
      [] net = "down"  -> Response(0, EmptyDict)
      [] net = "empty" -> Response(204, EmptyDict)
      [] OTHER -> IF collection = "missing" THEN Response(404, EmptyDict)
                  ELSE Response(200, ShapedBody(CollectionItems(its, collection), shape))

Collections == {"", "empty", "missing"}

Client_get_all_items(r) ==
    /\ Free(r)
    /\ \E collection \in Collections, shape \in Shapes, net \in NetChoices :
        LET resp == ServerGetAll(items, collection, shape, net)
            q == ClientCall("get_all_items", "",
                            [collection |-> collection, shape |-> shape])
        IN  req' = [req EXCEPT ![r] =
                [q EXCEPT !.requests = CollectionDB_requests("GET", "", EmptyDict, resp),
                          !.answer = resp.status,
                          !.result = get_all_items(CollectionDB_make_request(resp)),
                          !.contained = IF resp.status = 200
                                        THEN CollectionItems(items, collection)
                                        ELSE <<>>]]
    /\ UNCHANGED <<clock, items, nextAuto, db_bugs, activities>>

NextClient ==
    \/ \E r \in ClientReq : Client_create_item(r)
    \/ \E r \in ClientReq : Client_get_all_items(r)
    \/ \E r \in ClientReq : Client_get_item_by_id(r)
    \/ \E r \in ClientReq : Client_update_item(r)
    \/ \E r \in ClientReq : Client_delete_item(r)

(* ------------------------------ listings ------------------------------- *)
\* json.dumps of a dict of strings, keys in insertion order.
RECURSIVE DumpPairs(_, _)
DumpPairs(d, keys) ==
    IF keys = <<>> THEN ""
    ELSE "\"" \o Head(keys) \o "\": \"" \o d[Head(keys)] \o "\""
         \o (IF Tail(keys) = <<>> THEN "" ELSE ", ") \o DumpPairs(d, Tail(keys))
json_dumps(d, keys) == "{" \o DumpPairs(d, keys) \o "}"

\* A JSON number.
JNum(n) == [t |-> "num", v |-> n]

\* The JSON payloads kept in description fields: of a project, of a project
\* without createdBy, of a user.
ProjectKeys == <<"type", "description", "createdBy">>
ProjectData == [type |-> "project", description |-> "pd", createdBy |-> SeedUserId]
ProjectDataNoCreator == [type |-> "project", description |-> "pd"]
OtherProjectData == [type |-> "project", description |-> "qd", createdBy |-> "u2"]
UserKeys == <<"type", "email", "role">>
UserData == [type |-> "user", email |-> "e", role |-> "tester"]
UserDataNoRole == [type |-> "user", email |-> "e"]

\* The texts that are JSON, with the values they stand for; every other
\* text is no JSON.
JsonTexts ==
    <<[text |-> json_dumps(ProjectData, ProjectKeys), value |-> JDict(ProjectData)],
      [text |-> json_dumps(ProjectDataNoCreator, <<"type", "description">>),
       value |-> JDict(ProjectDataNoCreator)],
      [text |-> json_dumps(OtherProjectData, ProjectKeys), value |-> JDict(OtherProjectData)],
      [text |-> json_dumps(UserData, UserKeys), value |-> JDict(UserData)],
      [text |-> json_dumps(UserDataNoRole, <<"type", "email">>),
       value |-> JDict(UserDataNoRole)],
      [text |-> "{}", value |-> JDict(EmptyDict)],
      [text |-> ToString(42), value |-> JNum(42)]>>

\* json.loads
json_loads(s) ==
    LET hits == {i \in 1..Len(JsonTexts) : JsonTexts[i].text = s} IN
    IF hits = {} THEN Raise("JSONDecodeError")
    ELSE Value(JsonTexts[CHOOSE i \in hits : TRUE].value)

\* Exceptions that "except ValueError" catches.
ValueErrors == {"ValueError", "ValidationError", "JSONDecodeError"}

\* ProjectRepository._project_to_collection_item
project_to_collection_item(project) ==
    [name |-> project.name,
     description |-> json_dumps([type |-> "project", description |-> project.description,
                                 createdBy |-> project.createdBy], ProjectKeys),
     created_at |-> isoformat(project.createdAt)]

\* ProjectRepository._collection_item_to_project, with Project(...).
collection_item_to_project(item, now) ==
    LET parsed == json_loads(IF Has(item, "description") THEN item.description ELSE "{}")
        ts == ParseTimestamp(item, "created_at")
        name == IF Has(item, "name") THEN item.name ELSE ""
    IN  IF parsed.kind = "raise" THEN Raise("ValueError")
        ELSE IF parsed.value.t # "dict" THEN Raise("AttributeError")
        ELSE LET data == parsed.value.v IN
             IF MissingRequired(data, {"description", "createdBy"}) THEN Raise("ValueError")
             ELSE IF name = "" THEN Raise("ValidationError")
             ELSE Value([id |-> IF Has(item, "__auto_id__") THEN item["__auto_id__"] ELSE "",
                         name |-> name, description |-> data.description,
                         createdBy |-> data.createdBy,
                         createdAt |-> IF ts.kind = "value" THEN ts.value ELSE now])

\* What the loop of a listing does with one item: skip it, take the decoded
\* entity, or raise.
Skip == [kind |-> "skip"]

\* The loop itself: the first item that raises ends the listing.
RECURSIVE Collect(_)
Collect(steps) ==
    IF steps = <<>> THEN Value(<<>>)
    ELSE LET h == Head(steps)
             rest == Collect(Tail(steps))
         IN  IF h.kind = "raise" THEN h
             ELSE IF rest.kind = "raise" THEN rest
             ELSE IF h.kind = "skip" THEN rest
             ELSE Value(<<h.value>> \o rest.value)

\* BugRepository.get_all without filters: the type test, then the decode.
bug_get_all_step(item, now) ==
    IF Has(item, "type") /\ item.type = "bug"
    THEN collection_item_to_bug(item, now)
    ELSE Skip
bug_get_all(its, now) ==
    Collect([i \in 1..Len(its) |-> bug_get_all_step(its[i], now)])

\* ProjectRepository.get_all: empty descriptions and texts that are no JSON
\* are skipped, data.get("type") is compared, a decode that raises a
\* ValueError is skipped.
project_get_all_step(item, now) ==
    IF ~Has(item, "description") \/ item.description = "" THEN Skip
    ELSE LET parsed == json_loads(item.description) IN
         IF parsed.kind = "raise" THEN Skip
         ELSE IF parsed.value.t # "dict" THEN Raise("AttributeError")
         ELSE IF ~(Has(parsed.value.v, "type") /\ parsed.value.v.type = "project") THEN Skip
         ELSE LET project == collection_item_to_project(item, now) IN
              IF project.kind = "raise" /\ project.exc \in ValueErrors THEN Skip
              ELSE project
project_get_all(its, now) ==
    Collect([i \in 1..Len(its) |-> project_get_all_step(its[i], now)])

\* Items the shared base collection can hold: two bugs (one whose description
\* reads 42), a project, a project without createdBy, a user, a comment and
\* an item with neither type nor description.
NumericBugItem == [SeedBugItem EXCEPT !["__auto_id__"] = "b2", !.description = ToString(42)]
ProjectItem ==
    WithKey(project_to_collection_item([name |-> "P", description |-> "pd",
                                        createdBy |-> SeedUserId, createdAt |-> 0]),
            "__auto_id__", "p1")
BrokenProjectItem ==
    [__auto_id__ |-> "p2", name |-> "Q",
     description |-> json_dumps(ProjectDataNoCreator, <<"type", "description">>)]
JsonUserItem ==
    [__auto_id__ |-> SeedUserId, name |-> "n", description |-> json_dumps(UserData, UserKeys)]
CommentItem ==
    WithKey(comment_to_collection_item([bugId |-> SeedBugId, authorId |-> SeedUserId,
                                        message |-> "m", createdAt |-> 0]),
            "__auto_id__", AutoId(1))
UntypedItem == [__auto_id__ |-> "x1", name |-> "x"]
ListingItems ==
    {SeedBugItem, NumericBugItem, ProjectItem, BrokenProjectItem, JsonUserItem,
     CommentItem, UntypedItem}

\* The contents of the collection: up to MaxListing different items.
Listings ==
    {l \in UNION {[1..n -> ListingItems] : n \in 0..MaxListing} :
        \A i, j \in 1..Len(l) : i # j => l[i] # l[j]}

\* The slot that calls the list operations.
ListReq == {"r1"}
ListCall(op, listing) ==
    [pc |-> "done", kind |-> op, listing |-> listing, requests |-> <<>>,
     answer |-> -1, result |-> None]

\* <Repository>.get_all: GET of the base collection, then the loop.
Repo_get_all(r, op, listing, net) ==
    LET resp == CASE net = "error" -> Response(500, EmptyDict)
                  [] net = "down"  -> Response(0, EmptyDict)
                  [] net = "absent" -> Response(404, EmptyDict)
                  [] OTHER -> Response(200, JList(listing))
        fetched == get_all_items(CollectionDB_make_request(resp))
    IN  /\ req' = [req EXCEPT ![r] =
              [ListCall(op, listing) EXCEPT
                  !.requests = CollectionDB_requests("GET", "", EmptyDict, resp),
                  !.answer = resp.status,
                  !.result = IF fetched.kind = "raise" THEN fetched
                             ELSE IF op = "bug_get_all"
                                  THEN bug_get_all(fetched.value, clock)
                                  ELSE project_get_all(fetched.value, clock)]]
        /\ UNCHANGED <<clock, items, nextAuto, db_bugs, activities>>

ListNet == {"ok", "error", "down", "absent"}

BugRepo_get_all(r) ==
    /\ Free(r)
    /\ \E listing \in Listings, net \in ListNet : Repo_get_all(r, "bug_get_all", listing, net)

ProjectRepo_get_all(r) ==
    /\ Free(r)
    /\ \E listing \in Listings, net \in ListNet :
         Repo_get_all(r, "project_get_all", listing, net)

NextListing ==
    \/ \E r \in ListReq : BugRepo_get_all(r)
    \/ \E r \in ListReq : ProjectRepo_get_all(r)

(* ------------------------------- scans --------------------------------- *)
\* ActivityLogRepository._activity_log_to_collection_item
activity_log_to_collection_item(log) ==
    [type |-> "activity_log", bugId |-> log.bugId, action |-> log.action,
     performedBy |-> log.performedBy, timestamp |-> isoformat(log.timestamp)]

\* What ActivityLog(**item) makes of its timestamp field: only a str has
\* been parsed before (fromisoformat raises ValueError on a text that is no
\* ISO date), a datetime is taken as it is, a number is read as seconds
\* after the epoch (<<"int", n>> is the int n, <<"float", n, u>> the float of
\* n seconds and u microseconds), None and every other type (bool, list,
\* dict) are rejected.
activity_timestamp(item, k) ==
    IF ~Has(item, k) THEN None
    ELSE IF item[k][1] = "dt" THEN Value(item[k][2])
    ELSE IF item[k][1] = "iso" THEN Value(fromisoformat(item[k]))
    ELSE IF item[k][1] = "str" THEN Raise("ValueError")
    ELSE IF item[k][1] = "int" THEN Value(2 * item[k][2])
    ELSE IF item[k][1] = "float" THEN Value(2 * item[k][2] + (item[k][3] \div 500000))
    ELSE Raise("ValidationError")

\* ActivityLogRepository._collection_item_to_activity_log, with
\* ActivityLog(**item): __auto_id__ replaces _id, a str timestamp is parsed,
\* the model validates the rest; a missing timestamp defaults to now.
collection_item_to_activity_log(item0, now) ==
    LET item == IF Has(item0, "__auto_id__")
                THEN WithKey(WithoutKey(item0, "__auto_id__"), "_id", item0["__auto_id__"])
                ELSE item0
        ts == activity_timestamp(item, "timestamp")
    IN  IF ts.kind = "raise" /\ ts.exc = "ValueError" THEN ts
        ELSE IF MissingRequired(item, {"bugId", "action", "performedBy"})
                \/ ts.kind = "raise"
             THEN Raise("ValidationError")
        ELSE Value([id |-> IF Has(item, "_id") THEN item["_id"] ELSE "",
                    bugId |-> item.bugId, action |-> item.action,
                    performedBy |-> item.performedBy,
                    timestamp |-> IF ts.kind = "value" THEN ts.value ELSE now])

\* UserRepository._collection_item_to_user on an item whose description is
\* the JSON text: a text that is no JSON counts as {}, created_at falls back
\* to the current time, User(...) validates name, email and role.
collection_item_to_user_text(item, now) ==
    LET parsed == json_loads(IF Has(item, "description") THEN item.description ELSE "{}")
        ts == ParseTimestamp(item, "created_at")
        name == IF Has(item, "name") THEN item.name ELSE ""
    IN  IF parsed.kind = "value" /\ parsed.value.t # "dict" THEN Raise("AttributeError")
        ELSE LET data == IF parsed.kind = "raise" THEN EmptyDict ELSE parsed.value.v
                 email == IF Has(data, "email") THEN data.email ELSE ""
                 role == IF Has(data, "role") THEN data.role ELSE ""
             IN  IF name = "" \/ email = "" \/ role = "" THEN Raise("ValidationError")
                 ELSE Value([id |-> IF Has(item, "__auto_id__") THEN item["__auto_id__"] ELSE "",
                             name |-> name, email |-> email, role |-> role,
                             createdAt |-> IF ts.kind = "value" THEN ts.value ELSE now])

\* list.sort(key=...), ascending or with reverse=True; equal keys keep
\* their order.
RECURSIVE SortedInsert(_, _, _)
SortedInsert(x, sorted, reverse) ==
    IF sorted = <<>> THEN <<x>>
    ELSE LET h == Head(sorted)
             before == IF reverse THEN x.key > h.key ELSE x.key < h.key
         IN  IF before THEN <<x>> \o sorted
             ELSE <<h>> \o SortedInsert(x, Tail(sorted), reverse)
RECURSIVE SortKeyed(_, _)
SortKeyed(keyed, reverse) ==
    IF keyed = <<>> THEN <<>>
    ELSE LET n == Len(keyed) IN
         SortedInsert(keyed[n], SortKeyed(SubSeq(keyed, 1, n - 1), reverse), reverse)
list_sort(seq, key, reverse) ==
    LET sorted == SortKeyed([i \in 1..Len(seq) |-> [key |-> seq[i][key], elem |-> seq[i]]],
                            reverse)
    IN  [i \in 1..Len(sorted) |-> sorted[i].elem]

\* An argument that is None: a filter the caller left out.
Omitted == NoneStr

\* A get_all that ignores its filter arguments.
BugRepository_get_all_NoFilters(its, now, project_id, status, assigned_to) ==
    Collect([i \in 1..Len(its) |-> bug_get_all_step(its[i], now)])

\* BugRepository.get_all: the scan, then each supplied filter in turn.
BugRepository_get_all(its, now, project_id, status, assigned_to) ==
    LET bugs == bug_get_all(its, now)
        ByProject(b) == b.projectId = project_id
        ByStatus(b) == b.status = status
        ByAssignee(b) == b.assignedTo = assigned_to
    IN  IF bugs.kind = "raise" THEN bugs
        ELSE LET f1 == IF project_id # Omitted THEN SelectSeq(bugs.value, ByProject)
                       ELSE bugs.value
                 f2 == IF status # Omitted THEN SelectSeq(f1, ByStatus) ELSE f1
                 f3 == IF assigned_to # Omitted THEN SelectSeq(f2, ByAssignee) ELSE f2
             IN  Value(f3)

\* CommentRepository.get_by_bug_id: type test and decode, the bugId filter,
\* the sort by createdAt.
comment_get_by_bug_id_step(item, now) ==
    IF Has(item, "type") /\ item.type = "comment"
    THEN collection_item_to_comment(item, now)
    ELSE Skip
comment_get_by_bug_id_Unsorted(its, now, bug_id) ==
    LET comments == Collect([i \in 1..Len(its) |-> comment_get_by_bug_id_step(its[i], now)])
        OfBug(c) == c.bugId = bug_id
    IN  IF comments.kind = "raise" THEN comments
        ELSE Value(SelectSeq(comments.value, OfBug))
comment_get_by_bug_id(its, now, bug_id) ==
    LET comments == Collect([i \in 1..Len(its) |-> comment_get_by_bug_id_step(its[i], now)])
        OfBug(c) == c.bugId = bug_id
    IN  IF comments.kind = "raise" THEN comments
        ELSE Value(list_sort(SelectSeq(comments.value, OfBug), "createdAt", FALSE))

\* ActivityLogRepository.get_by_bug_id: the same with the newest first.
activity_get_by_bug_id_step(item, now) ==
    IF Has(item, "type") /\ item.type = "activity_log"
    THEN collection_item_to_activity_log(item, now)
    ELSE Skip
activity_get_by_bug_id(its, now, bug_id) ==
    LET logs == Collect([i \in 1..Len(its) |-> activity_get_by_bug_id_step(its[i], now)])
        OfBug(l) == l.bugId = bug_id
    IN  IF logs.kind = "raise" THEN logs
        ELSE Value(list_sort(SelectSeq(logs.value, OfBug), "timestamp", TRUE))

\* UserRepository.get_all: the loop of ProjectRepository.get_all with the
\* user decoder.
user_get_all_step(item, now) ==
    IF ~Has(item, "description") \/ item.description = "" THEN Skip
    ELSE LET parsed == json_loads(item.description) IN
         IF parsed.kind = "raise" THEN Skip
         ELSE IF parsed.value.t # "dict" THEN Raise("AttributeError")
         ELSE IF ~(Has(parsed.value.v, "type") /\ parsed.value.v.type = "user") THEN Skip
         ELSE LET user == collection_item_to_user_text(item, now) IN
              IF user.kind = "raise" /\ user.exc \in ValueErrors THEN Skip
              ELSE user
user_get_all(its, now) ==
    Collect([i \in 1..Len(its) |-> user_get_all_step(its[i], now)])

\* Bugs of the scanned collection: three that decode (they differ in
\* project, status and assignee; the third has no assignee) and one whose
\* createdAt is no ISO text.
ScanBugA == WithKey(SeedBugItem, "assignedTo", SeedUserId)
ScanBugB ==
    WithKey([SeedBugItem EXCEPT !["__auto_id__"] = "b2", !.status = "Closed",
                                !.validated = TRUE], "assignedTo", "u2")
ScanBugC == [SeedBugItem EXCEPT !["__auto_id__"] = "b3", !.projectId = "p2"]
\* A bug assigned to the empty string.
ScanBugD == WithKey([SeedBugItem EXCEPT !["__auto_id__"] = "b5"], "assignedTo", "")
CorruptBugItem ==
    [SeedBugItem EXCEPT !["__auto_id__"] = "b4", !.createdAt = <<"str", "bad">>]

\* Comments: two of the seeded bug, stored newest first, one of another bug,
\* and one without message.
ScanComment(id, bug_id, created_at) ==
    WithKey(comment_to_collection_item([bugId |-> bug_id, authorId |-> SeedUserId,
                                        message |-> "m", createdAt |-> created_at]),
            "__auto_id__", id)
ScanCommentLate == ScanComment("c1", SeedBugId, 2)
ScanCommentEarly == ScanComment("c2", SeedBugId, 0)
ScanCommentOther == ScanComment("c3", "b2", 1)
CorruptCommentItem ==
    [__auto_id__ |-> "c4", type |-> "comment", bugId |-> SeedBugId,
     authorId |-> SeedUserId, createdAt |-> isoformat(0)]

\* Activity logs: the same pattern, the corrupt one with a timestamp that
\* is no ISO text.
ScanLog(id, bug_id, timestamp) ==
    WithKey(activity_log_to_collection_item([bugId |-> bug_id, action |-> "status_changed",
                                             performedBy |-> SeedUserId,
                                             timestamp |-> timestamp]),
            "__auto_id__", id)
ScanLogEarly == ScanLog("a1", SeedBugId, 0)
ScanLogLate == ScanLog("a2", SeedBugId, 2)
ScanLogOther == ScanLog("a3", "b2", 1)
CorruptLogItem == [ScanLogEarly EXCEPT !["__auto_id__"] = "a4", !.timestamp = <<"str", "bad">>]
\* A log whose timestamp is a number of seconds, and one whose timestamp is null.
NumericLogItem == [ScanLogEarly EXCEPT !["__auto_id__"] = "a5", !.timestamp = <<"int", 1>>]
NullLogItem == [ScanLogEarly EXCEPT !["__auto_id__"] = "a6", !.timestamp = <<"null">>]
\* A log whose timestamp is a number of seconds with a fraction: 1.5.
FloatLogItem ==
    [ScanLogEarly EXCEPT !["__auto_id__"] = "a7", !.timestamp = <<"float", 1, 500000>>]

\* Users: one that decodes, one whose payload has no role, one whose
\* payload is no JSON.
UserItemNoRole ==
    [__auto_id__ |-> "u3", name |-> "n",
     description |-> json_dumps(UserDataNoRole, <<"type", "email">>)]
UserItemNoJson == [__auto_id__ |-> "u4", name |-> "n", description |-> "{type: user"]
ProjectItemNoJson == [__auto_id__ |-> "p3", name |-> "R", description |-> "{type: project"]
\* A user and a project whose payload is JSON but no object: it reads 42.
UserItemNotObject == [__auto_id__ |-> "u5", name |-> "n", description |-> ToString(42)]
ProjectItemNotObject == [__auto_id__ |-> "p4", name |-> "R", description |-> ToString(42)]

\* What each list operation is run against: the items of its own kind and
\* one item of another kind.
ScanOps ==
    {"bug_get_all", "comment_get_by_bug_id", "activity_get_by_bug_id",
     "project_get_all", "user_get_all"}
ScanItems(op) ==
    CASE op = "bug_get_all" -> {ScanBugA, ScanBugB, ScanBugC, ScanBugD, CorruptBugItem, CommentItem}
      [] op = "comment_get_by_bug_id" ->
            {ScanCommentLate, ScanCommentEarly, ScanCommentOther, CorruptCommentItem,
             SeedBugItem}
      [] op = "activity_get_by_bug_id" ->
            {ScanLogEarly, ScanLogLate, ScanLogOther, CorruptLogItem, NumericLogItem,
             FloatLogItem, NullLogItem, SeedBugItem}
      [] op = "project_get_all" ->
            {ProjectItem, BrokenProjectItem, ProjectItemNoJson, JsonUserItem}
      [] OTHER -> {JsonUserItem, UserItemNoRole, UserItemNoJson, ProjectItem}
ScanListings(op) ==
    {l \in UNION {[1..n -> ScanItems(op)] : n \in 0..MaxListing} :
        \A i, j \in 1..Len(l) : i # j => l[i] # l[j]}

\* The arguments of a list operation: a bug id, or the three filters.
ScanBugIds == {SeedBugId, "b2"}
NoArgs == [project_id |-> Omitted, status |-> Omitted, assigned_to |-> Omitted]
FilterArgs ==
    [project_id : {Omitted, "p1", "p2"}, status : {Omitted, "Open", "Closed"},
     assigned_to : {Omitted, "", SeedUserId, "u2"}]
ScanArgs(op) ==
    CASE op = "bug_get_all" -> FilterArgs
      [] op \in {"comment_get_by_bug_id", "activity_get_by_bug_id"} ->
            {[NoArgs EXCEPT !.project_id = b] : b \in ScanBugIds}
      [] OTHER -> {NoArgs}

\* The slot that calls the list operations.
ScanReq == {"r1"}
ScanCall(op, listing, args) ==
    [pc |-> "done", kind |-> op, listing |-> listing, args |-> args, now |-> 0,
     answer |-> -1, result |-> None]

\* A list operation: GET of the base collection, then the operation's loop,
\* filters and sort. The operations leave the store alone, so the slot
\* makes one call.
ScanResult(op, its, now, args) ==
    CASE op = "bug_get_all" ->
            BugRepository_get_all(its, now, args.project_id, args.status, args.assigned_to)
      [] op = "comment_get_by_bug_id" -> comment_get_by_bug_id(its, now, args.project_id)
      [] op = "activity_get_by_bug_id" -> activity_get_by_bug_id(its, now, args.project_id)
      [] op = "project_get_all" -> project_get_all(its, now)
      [] OTHER -> user_get_all(its, now)

Repo_scan(r, op) ==
    /\ req[r].pc = "idle"
    /\ \E listing \in ScanListings(op), args \in ScanArgs(op), net \in {"ok", "error"} :
         LET resp == IF net = "error" THEN Response(500, EmptyDict)
                     ELSE Response(200, JList(listing))
             fetched == get_all_items(CollectionDB_make_request(resp))
         IN  req' = [req EXCEPT ![r] =
                 [ScanCall(op, listing, args) EXCEPT
                     !.now = clock,
                     !.answer = resp.status,
                     !.result = IF fetched.kind = "raise" THEN fetched
                                ELSE ScanResult(op, fetched.value, clock, args)]]
    /\ UNCHANGED <<clock, items, nextAuto, db_bugs, activities>>

BugRepo_scan(r) == Repo_scan(r, "bug_get_all")
CommentRepo_get_by_bug_id(r) == Repo_scan(r, "comment_get_by_bug_id")
ActivityLogRepo_get_by_bug_id(r) == Repo_scan(r, "activity_get_by_bug_id")
ProjectRepo_scan(r) == Repo_scan(r, "project_get_all")
UserRepo_get_all(r) == Repo_scan(r, "user_get_all")

NextScan ==
    \/ Tick
    \/ \E r \in ScanReq : BugRepo_scan(r)
    \/ \E r \in ScanReq : CommentRepo_get_by_bug_id(r)
    \/ \E r \in ScanReq : ActivityLogRepo_get_by_bug_id(r)
    \/ \E r \in ScanReq : ProjectRepo_scan(r)
    \/ \E r \in ScanReq : UserRepo_get_all(r)

(* --------------------------- single-item reads ------------------------- *)
\* ProjectRepository.get_by_id: absent stays absent; the decode is inside
\* "try ... except ValueError: return None".
project_get_by_id(result, now) ==
    IF result.kind = "value"
    THEN LET project == collection_item_to_project(result.value, now) IN
         IF project.kind = "raise" /\ project.exc \in ValueErrors THEN None ELSE project
    ELSE result

\* UserRepository.get_by_id: absent stays absent, the decode is unguarded.
user_get_by_id(result, now) ==
    IF result.kind = "value" THEN collection_item_to_user_text(result.value, now) ELSE result

\* What the store can hold under the requested id: nothing, an item that
\* decodes, an item whose payload lacks a required attribute, an item whose
\* payload is no JSON, an item whose payload is JSON but no object.
ReadOps == {"project_get_by_id", "user_get_by_id"}
ReadItems(op) ==
    IF op = "project_get_by_id"
    THEN {NoItem, ProjectItem, BrokenProjectItem, ProjectItemNoJson, ProjectItemNotObject}
    ELSE {NoItem, JsonUserItem, UserItemNoRole, UserItemNoJson, UserItemNotObject}
ReadIds == {"p1", BlankId}

\* The slot that calls the codec-level operations.
CodecReq == {"r1"}
ReadCall(op, id, stored) ==
    [pc |-> "done", kind |-> op, id |-> id, stored |-> stored, now |-> 0,
     requests |-> <<>>, answer |-> -1, result |-> None]

Repo_read(r, op) ==
    /\ req[r].pc = "idle"
    /\ \E id \in ReadIds, item \in ReadItems(op), net \in {"ok", "error"} :
         LET stored == IF item = NoItem THEN NoItem
                       ELSE StoredItem(WithoutKey(item, "__auto_id__"), id)
             resp == ServerGet([i \in {id} |-> stored], id, net)
             res == get_item_by_id(resp)
             q == [ReadCall(op, id, stored) EXCEPT !.now = clock]
         IN  req' = [req EXCEPT ![r] =
                 IF get_item_by_id_rejects(id)
                 THEN [q EXCEPT !.result = Raise("ValueError")]
                 ELSE [q EXCEPT !.requests = CollectionDB_requests("GET", id, EmptyDict, resp),
                                !.answer = resp.status,
                                !.result = IF op = "project_get_by_id"
                                           THEN project_get_by_id(res, clock)
                                           ELSE user_get_by_id(res, clock)]]
    /\ UNCHANGED <<clock, items, nextAuto, db_bugs, activities>>

ProjectRepo_get_by_id(r) == Repo_read(r, "project_get_by_id")
UserRepo_get_by_id(r) == Repo_read(r, "user_get_by_id")

(* ------------------------------- codecs -------------------------------- *)
\* BugRepository._bug_to_collection_item
bug_to_collection_item_NoTags(bug) ==
    [type |-> "bug", title |-> bug.title, description |-> bug.description,
     status |-> bug.status, priority |-> bug.priority, severity |-> bug.severity,
     projectId |-> bug.projectId, reportedBy |-> bug.reportedBy,
     assignedTo |-> bug.assignedTo, validated |-> bug.validated,
     createdAt |-> isoformat(bug.createdAt), updatedAt |-> isoformat(bug.updatedAt)]

bug_to_collection_item(bug) ==
    [type |-> "bug", title |-> bug.title, description |-> bug.description,
     status |-> bug.status, priority |-> bug.priority, severity |-> bug.severity,
     projectId |-> bug.projectId, reportedBy |-> bug.reportedBy,
     assignedTo |-> bug.assignedTo, tags |-> bug.tags, validated |-> bug.validated,
     createdAt |-> isoformat(bug.createdAt), updatedAt |-> isoformat(bug.updatedAt)]

\* The entities handed to the encoders: create() receives them without id
\* ("" stands for None, also for a bug without assignee).
EntityKinds == {"bug", "comment", "activity_log", "project"}
Entities(kind) ==
    CASE kind = "bug" ->
            [id : {""}, title : {"t"}, description : {"d"}, projectId : {"p1"},
             reportedBy : {SeedUserId}, assignedTo : {NoneStr, "", "u2"}, status : {"Open", "Closed"},
             priority : {"Low"}, severity : {"Minor"}, tags : {<<>>, <<"x">>},
             validated : BOOLEAN, createdAt : 0..MaxClock, updatedAt : 0..MaxClock]
      [] kind = "comment" ->
            [id : {""}, bugId : {SeedBugId, "b2"}, authorId : {SeedUserId},
             message : {"m", "n"}, createdAt : 0..MaxClock]
      [] kind = "activity_log" ->
            [id : {""}, bugId : {SeedBugId, "b2"}, action : {"status_changed", "validated"},
             performedBy : {SeedUserId}, timestamp : 0..MaxClock]
      [] OTHER ->
            {[id |-> "", name |-> n, description |-> d.description,
              createdBy |-> d.createdBy, createdAt |-> c] :
                n \in {"P", "Q"}, d \in {ProjectData, OtherProjectData}, c \in 0..MaxClock}

\* The moment an entity was built; the Comment model rejects a createdAt
\* that lies after it.
BuiltAt(kind, e) == IF kind = "comment" THEN e.createdAt ELSE 0

encode(kind, e) ==
    CASE kind = "bug" -> bug_to_collection_item(e)
      [] kind = "comment" -> comment_to_collection_item(e)
      [] kind = "activity_log" -> activity_log_to_collection_item(e)
      [] OTHER -> project_to_collection_item(e)
decode(kind, item, now) ==
    CASE kind = "bug" -> collection_item_to_bug(item, now)
      [] kind = "comment" -> collection_item_to_comment(item, now)
      [] kind = "activity_log" -> collection_item_to_activity_log(item, now)
      [] kind = "project" -> collection_item_to_project(item, now)
      [] OTHER -> collection_item_to_user_text(item, now)

\* The decoder applied to the fields map the encoder produced for an
\* entity, with no store in between.
RoundTripCall(kind, e) ==
    [pc |-> "done", kind |-> "roundtrip", entity_kind |-> kind, entity |-> e,
     now |-> 0, result |-> None]
Codec_roundtrip(r, kind) ==
    /\ req[r].pc = "idle"
    /\ \E e \in Entities(kind) :
         /\ BuiltAt(kind, e) <= clock
         /\ req' = [req EXCEPT ![r] =
                [RoundTripCall(kind, e) EXCEPT !.now = clock,
                                               !.result = decode(kind, encode(kind, e), clock)]]
    /\ UNCHANGED <<clock, items, nextAuto, db_bugs, activities>>

\* <Repository>.create(entity): the entity is encoded, create_item posts the
\* fields map, the store keeps it under a fresh __auto_id__ and echoes it,
\* and the echoed item is decoded. The same method in BugRepository,
\* CommentRepository, ActivityLogRepository and ProjectRepository.
CreateCall(kind, e) ==
    [pc |-> "done", kind |-> "create", entity_kind |-> kind, entity |-> e,
     now |-> 0, requests |-> <<>>, answer |-> -1, storedId |-> "", result |-> None]
Repo_create(r, kind) ==
    /\ req[r].pc = "idle"
    /\ nextAuto <= MaxAuto
    /\ \E e \in Entities(kind), net \in NetChoices :
         LET item_data == encode(kind, e)
             id == AutoId(nextAuto)
             srv == ServerPost(items, id, item_data, net)
             created_item == create_item(item_data, srv.resp)
             stored == srv.items[id] # NoItem
             q == [CreateCall(kind, e) EXCEPT
                      !.now = clock,
                      !.requests = CollectionDB_requests("POST", "", item_data, srv.resp),
                      !.answer = srv.resp.status,
                      !.storedId = IF stored THEN id ELSE ""]
         IN  /\ BuiltAt(kind, e) <= clock
             /\ items' = srv.items
             /\ nextAuto' = IF stored THEN nextAuto + 1 ELSE nextAuto
             /\ req' = [req EXCEPT ![r] =
                    [q EXCEPT !.result = IF created_item.kind = "value"
                                         THEN decode(kind, created_item.value, clock)
                                         ELSE created_item]]
    /\ UNCHANGED <<clock, db_bugs, activities>>

\* ProjectRepository.update: empty updates are refused, datetime values are
\* serialized, update_item sends the PUT and the updated item is decoded.
project_update_serialize(updates) ==
    [k \in DOMAIN updates |->
        IF k = "created_at" THEN isoformat(updates[k]) ELSE updates[k]]
ProjectUpdates == {EmptyDict, [name |-> "Q"], [created_at |-> 1]}
ProjectUpdateIds == {AutoId(1), MissingBugId, BlankId}
UpdateCall(id, updates) ==
    [pc |-> "done", kind |-> "project_update", id |-> id, updates |-> updates,
     now |-> 0, requests |-> <<>>, answer |-> -1, result |-> None]
\* The slot updates a project it has created, or a project of an empty store.
ProjectRepo_update(r) ==
    /\ \/ req[r].pc = "idle"
       \/ req[r].kind = "create" /\ req[r].entity_kind = "project"
    /\ \E project_id \in ProjectUpdateIds, updates \in ProjectUpdates, net \in NetChoices :
         LET q == [UpdateCall(project_id, updates) EXCEPT !.now = clock]
             serialized == project_update_serialize(updates)
         IN  IF updates = EmptyDict \/ update_item_rejects(project_id, serialized)
             THEN /\ req' = [req EXCEPT ![r] = [q EXCEPT !.result = Raise("ValueError")]]
                  /\ UNCHANGED items
             ELSE LET srv == ServerPut(items, project_id, serialized, net)
                      updated_item == update_item(srv.resp)
                  IN  /\ items' = srv.items
                      /\ req' = [req EXCEPT ![r] =
                             [q EXCEPT
                                !.requests = CollectionDB_requests("PUT", project_id,
                                                                   serialized, srv.resp),
                                !.answer = srv.resp.status,
                                !.result = IF updated_item.kind = "value"
                                           THEN collection_item_to_project(
                                                    updated_item.value, clock)
                                           ELSE updated_item]]
    /\ UNCHANGED <<clock, nextAuto, db_bugs, activities>>

\* Decoding an item that carries an explicit identifier, the auto-assigned
\* one, both or neither.
DecodedKinds == EntityKinds \cup {"user"}
BaseItem(kind) ==
    CASE kind = "bug" -> WithoutKey(SeedBugItem, "__auto_id__")
      [] kind = "comment" -> WithoutKey(ScanCommentEarly, "__auto_id__")
      [] kind = "activity_log" -> WithoutKey(ScanLogEarly, "__auto_id__")
      [] kind = "project" -> WithoutKey(ProjectItem, "__auto_id__")
      [] OTHER -> WithoutKey(JsonUserItem, "__auto_id__")
ExplicitId == "x1"
IdKeys == SUBSET {"_id", "__auto_id__"}
WithIds(item, keys) ==
    LET a == IF "_id" \in keys THEN WithKey(item, "_id", ExplicitId) ELSE item
    IN  IF "__auto_id__" \in keys THEN WithKey(a, "__auto_id__", AutoId(1)) ELSE a
DecodeCall(kind, keys) ==
    [pc |-> "done", kind |-> "decode", entity_kind |-> kind, keys |-> keys,
     now |-> 0, result |-> None]
Codec_decode(r, kind) ==
    /\ req[r].pc = "idle"
    /\ \E keys \in IdKeys :
         req' = [req EXCEPT ![r] =
             [DecodeCall(kind, keys) EXCEPT
                 !.now = clock,
                 !.result = decode(kind, WithIds(BaseItem(kind), keys), clock)]]
    /\ UNCHANGED <<clock, items, nextAuto, db_bugs, activities>>

NextCodec ==
    \/ Tick
    \/ \E r \in CodecReq : ProjectRepo_get_by_id(r)
    \/ \E r \in CodecReq : UserRepo_get_by_id(r)
    \/ \E r \in CodecReq, kind \in EntityKinds : Codec_roundtrip(r, kind)
    \/ \E r \in CodecReq, kind \in EntityKinds : Repo_create(r, kind)
    \/ \E r \in CodecReq : ProjectRepo_update(r)
    \/ \E r \in CodecReq, kind \in DecodedKinds : Codec_decode(r, kind)

(* ------------------- concurrent status updates ------------------------- *)
\* Two slots send status updates for the stored bug while MongoDB answers:
\* both as developer, every target status.
RaceRoles == {"developer"}

SU_HandleRace(r) ==
    SU_HandleIn(r, {SeedMongoId}, BugStatuses, RaceRoles, {"ok"})

NextRace ==
    \/ Tick
    \/ \E r \in Req : SU_HandleRace(r)
    \/ \E r \in Req : SU_Log(r)

(* ------------------------- lifecycle of a bug -------------------------- *)
\* Two slots create a bug and send status updates, validations and
\* assignments for it, before and after it exists, in every interleaving of
\* their steps, while MongoDB and the other services answer.
LifeRoles == {"developer", "tester", "admin"}
LifeStatuses == {"Open", "Resolved", "Closed"}
LifeBugIds == CreatedMongoIds

CB_HandleLife(r) == CB_HandleIn(r, {"skipped"}, {"Low"}, {"none"}, {"t"}, {"ok"})
SU_HandleLife(r) == SU_HandleIn(r, LifeBugIds, LifeStatuses, LifeRoles, {"ok"})
VB_HandleLife(r) == VB_HandleIn(r, LifeBugIds, LifeRoles, {"ok"})
AB_HandleLife(r) == AB_HandleIn(r, LifeBugIds, {SeedUserId}, {"ok"})
AB_AssignLife(r) == AB_AssignIn(r, {"ok"}, {"ok"})
AB_LogLife(r) == AB_LogIn(r, {"ok"}, {"ok"})
SU_LogLife(r) == SU_LogIn(r, {"ok"}, {"ok"})
VB_LogLife(r) == VB_LogIn(r, {"ok"}, {"ok"})

NextLife ==
    \/ \E r \in Req : CB_HandleLife(r)
    \/ \E r \in Req : SU_HandleLife(r)
    \/ \E r \in Req : SU_LogLife(r)
    \/ \E r \in Req : VB_HandleLife(r)
    \/ \E r \in Req : VB_LogLife(r)
    \/ \E r \in Req : AB_HandleLife(r)
    \/ \E r \in Req : AB_AssignLife(r)
    \/ \E r \in Req : AB_LogLife(r)

(* --------------------- one client, three handlers ---------------------- *)
\* One slot sends status updates, validations and assignments one after the
\* other while time passes; a bug id may address nothing, an assignee may be
\* unknown, MongoDB and the activity service may fail.
FrameBugIds == {SeedMongoId, MissingMongoId}

SU_HandleFrame(r) == SU_HandleIn(r, FrameBugIds, LifeStatuses, LifeRoles, {"ok", "down"})
VB_HandleFrame(r) == VB_HandleIn(r, FrameBugIds, LifeRoles, {"ok", "down"})
AB_HandleFrame(r) ==
    AB_HandleIn(r, FrameBugIds, {SeedUserId, MissingUserId}, {"ok", "down"})

NextFrame ==
    \/ Tick
    \/ \E r \in StatusReq : SU_HandleFrame(r)
    \/ \E r \in StatusReq : SU_Log(r)
    \/ \E r \in StatusReq : VB_HandleFrame(r)
    \/ \E r \in StatusReq : VB_Log(r)
    \/ \E r \in StatusReq : AB_HandleFrame(r)
    \/ \E r \in StatusReq : AB_Assign(r)
    \/ \E r \in StatusReq : AB_Log(r)

Next ==
    \/ NextComment \/ NextStatus \/ NextRepo \/ NextClient \/ NextListing \/ NextRace
    \/ NextScan \/ NextCodec \/ NextLife \/ NextFrame \/ NextCreate

Spec == Init /\ [][Next]_vars
SpecComment == Init /\ [][NextComment]_vars
SpecStatus == Init /\ [][NextStatus]_vars
SpecRepo == Init /\ [][NextRepo]_vars
SpecClient == Init /\ [][NextClient]_vars
SpecListing == Init /\ [][NextListing]_vars
SpecRace == Init /\ [][NextRace]_vars
SpecScan == Init /\ [][NextScan]_vars
SpecCodec == Init /\ [][NextCodec]_vars
SpecLife == Init /\ [][NextLife]_vars
SpecFrame == Init /\ [][NextFrame]_vars
SpecCreate == Init /\ [][NextCreate]_vars

(* ===================== create_comment: properties ====================== *)
IsComment(r) == req[r].kind = "create_comment"
Finished(r) == IsComment(r) /\ req[r].pc = "done"
Issued(r, method) == \E i \in 1..Len(req[r].calls) : req[r].calls[i] = method
\* The comment this request posted is in the store.
CommentStored(r) == req[r].storedId # "" /\ items[req[r].storedId] # NoItem

\* C1: whenever the comment create succeeded and the update of the parent
\* bug's updatedAt failed, the request ends with the created comment deleted
\* from the store.
C1_RollbackDeletesComment ==
    \A r \in Req :
        (Finished(r) /\ req[r].created # NoEntity /\ req[r].updRaised)
            => ~CommentStored(r)

\* C2: when the bug update and the compensating delete both fail, the
\* outcome differs from the outcome of a failed update with a successful
\* rollback, and it carries the orphaned comment's collection and id.
C2_FatalOutcomeIsDistinct ==
    \A r \in Req :
        (Finished(r) /\ req[r].updRaised /\ CommentStored(r))
            => /\ req[r].outcome # CC_RollbackOutcome(FALSE)
               /\ Has(req[r].outcome, "orphan")
               /\ req[r].outcome.orphan = <<"", req[r].storedId>>

\* The three terminal outcomes of the saga.
SagaSuccess(r) ==
    req[r].outcome.code = 201 /\ CommentStored(r) /\ req[r].bugWritten /\ ~req[r].updRaised
SagaCleanRollback(r) == req[r].outcome.code >= 400 /\ ~CommentStored(r)
SagaFatalOrphan(r) ==
    req[r].outcome.code >= 400 /\ CommentStored(r) /\ req[r].updRaised

\* C3: every create_comment request that has issued the comment create
\* ends in exactly one of success, clean rollback and fatal orphan, and never
\* reports success when the bug update failed.
C3_TerminalOutcomes ==
    \A r \in Req :
        (Finished(r) /\ Issued(r, "POST"))
            => /\ SagaSuccess(r) \/ SagaCleanRollback(r) \/ SagaFatalOrphan(r)
               /\ ~(SagaSuccess(r) /\ SagaCleanRollback(r))
               /\ ~(SagaSuccess(r) /\ SagaFatalOrphan(r))
               /\ ~(SagaCleanRollback(r) /\ SagaFatalOrphan(r))
               /\ (req[r].updRaised => req[r].outcome.code # 201)

\* C4: when the bug lookup or the author lookup returns absent, the request
\* ends with 404 and has issued no write: only GETs were sent, no comment was
\* stored and the bug was not written.
C4_NoWriteWhenAbsent ==
    \A r \in Req :
        (IsComment(r) /\ req[r].absent)
            => /\ req[r].pc = "done"
               /\ req[r].outcome.code = 404
               /\ \A i \in 1..Len(req[r].calls) : req[r].calls[i] = "GET"
               /\ req[r].storedId = ""
               /\ ~req[r].bugWritten

\* Both lookups can be the absent one: a request that found the bug and
\* then ended with 404 on the author.
C4_Witness ==
    \E r \in Req :
        /\ Finished(r) /\ req[r].absent
        /\ req[r].bugId = SeedBugId /\ req[r].authorId = MissingUserId
        /\ Len(req[r].calls) = 2

\* C5: if CommentRepository.create fails, the request ends without a bug
\* update and without a delete, and no comment of the request is stored.
C5_FailedCreatePersistsNothing ==
    \A r \in Req :
        (Finished(r) /\ Issued(r, "POST") /\ req[r].created = NoEntity)
            => /\ ~Issued(r, "PUT")
               /\ ~Issued(r, "DELETE")
               /\ ~CommentStored(r)

\* C6: in the step that completes a successful create_comment, the createdAt
\* stored on the comment and the updatedAt stored on the parent bug are the
\* same value, the wire form of the one reading of the clock.
C6_SameTimestamp ==
    [][\A r \in Req :
         (IsComment(r) /\ req[r].pc = "update_bug" /\ req'[r].pc = "done"
            /\ req'[r].outcome.code = 201)
         => /\ items'[req[r].bugId].updatedAt = items'[req[r].storedId].createdAt
            /\ items'[req[r].storedId].createdAt = isoformat(req[r].now)]_vars

\* A successful request whose bug update was sent after the clock had moved
\* on from the reading taken before the create.
C6_Witness ==
    \E r \in Req :
        /\ Finished(r) /\ req[r].outcome.code = 201
        /\ req[r].now < clock
        /\ items[req[r].bugId].updatedAt = isoformat(req[r].now)
        /\ items[req[r].bugId].updatedAt # isoformat(clock)

(* =================== update_bug_status: properties ===================== *)
\* A status update that has read its bug: the role checks have been applied
\* to what find_one returned.
Decided(r) ==
    req[r].kind = "update_status" /\ req[r].pc \in {"su_log", "done"} /\ req[r].found
Denied(r, code) ==
    req[r].pc = "done" /\ req[r].outcome.code = code /\ ~req[r].wrote
InsufficientRole == 403
PreconditionNotMet == 400

\* C7: a status update that read status Closed is denied (403, nothing
\* written) for every role other than admin, whatever the requested status;
\* for admin it is not denied.
C7_ClosedOnlyAdmin ==
    \A r \in StatusReq :
        (Decided(r) /\ req[r].curStatus = "Closed")
            => IF Lower(req[r].role) # "admin"
               THEN Denied(r, InsufficientRole)
               ELSE req[r].decision = Allow

\* Closed bugs have been the target of every requested status, Closed
\* included, by a role that is not admin, and of an admin's request.
C7_Witness ==
    \E r \in StatusReq :
        /\ Decided(r) /\ req[r].curStatus = "Closed"
        /\ req[r].status = "Closed" /\ req[r].role = "tester"
        /\ Denied(r, InsufficientRole)

\* C8: a status update into Closed by a role other than admin and tester is
\* denied with 403, whatever the status and validated flag read; so one that
\* is allowed has role admin or tester.
C8_CloseNeedsAdminOrTester ==
    \A r \in StatusReq :
        (Decided(r) /\ req[r].status = "Closed")
            => /\ Lower(req[r].role) \notin {"admin", "tester"}
                    => Denied(r, InsufficientRole)
               /\ (req[r].decision = Allow \/ req[r].wrote)
                    => Lower(req[r].role) \in {"admin", "tester"}

\* A developer asked to close a validated bug that is not Closed.
C8_Witness ==
    \E r \in StatusReq :
        /\ Decided(r) /\ req[r].status = "Closed" /\ req[r].role = "developer"
        /\ req[r].curStatus = "Resolved" /\ req[r].curValidated
        /\ Denied(r, InsufficientRole)

\* C9: a status update into Closed by admin or tester on a bug that is not
\* Closed is denied with 400 (not 403) when validated is false, and is
\* allowed when validated is true.
C9_CloseNeedsValidated ==
    \A r \in StatusReq :
        (Decided(r) /\ req[r].status = "Closed" /\ req[r].curStatus # "Closed"
            /\ Lower(req[r].role) \in {"admin", "tester"})
            => IF req[r].curValidated
               THEN req[r].decision = Allow
               ELSE /\ Denied(r, PreconditionNotMet)
                    /\ req[r].outcome.code # InsufficientRole
                    /\ req[r].outcome.detail = "Bug must be validated before closing"

\* Both cases happened: a tester was refused on an unvalidated bug, and a
\* tester closed a validated one.
C9_WitnessDenied ==
    \E r \in StatusReq :
        /\ Decided(r) /\ req[r].status = "Closed" /\ req[r].role = "tester"
        /\ ~req[r].curValidated /\ Denied(r, PreconditionNotMet)

C9_Witness ==
    \E r \in StatusReq :
        /\ Decided(r) /\ req[r].status = "Closed" /\ req[r].role = "tester"
        /\ req[r].curStatus # "Closed" /\ req[r].curValidated
        /\ req[r].wrote /\ db_bugs[req[r].bugId].status = "Closed"

\* C10: a status update that reads a status other than Closed and requests
\* a status other than Closed is allowed for every role, and the step that
\* handles it leaves the requested status stored (unless MongoDB failed).
C10_OtherTransitionsAllowed ==
    [][\A r \in StatusReq :
         (Free(r) /\ req'[r].kind = "update_status" /\ req'[r].pc \in {"su_log", "done"}
            /\ req'[r].found /\ req'[r].curStatus # "Closed" /\ req'[r].status # "Closed")
         => /\ req'[r].decision = Allow
            /\ req'[r].outcome.code \notin {InsufficientRole, PreconditionNotMet}
            /\ IF req'[r].wrote
               THEN db_bugs'[req'[r].bugId].status = req'[r].status
               ELSE req'[r].outcome = StatusFailed /\ db_bugs' = db_bugs]_vars

\* A developer moved a bug backward, from Resolved to Open.
C10_Witness ==
    \E r \in StatusReq :
        /\ Decided(r) /\ req[r].role = "developer"
        /\ req[r].curStatus = "Resolved" /\ req[r].status = "Open"
        /\ req[r].wrote /\ req[r].pc = "su_log"
        /\ db_bugs[req[r].bugId].status = "Open"

(* ====================== validate_bug: properties ======================= *)
\* C11: the step that handles a validate request writes validated = TRUE
\* only when the lower-cased role is tester or admin; for every other role
\* the request ends denied (403, or 400 when the id is no ObjectId) and the
\* bugs collection is left as it was.
C11_ValidateOnlyTesterOrAdmin ==
    [][\A r \in StatusReq :
         (Free(r) /\ req'[r] # req[r] /\ req'[r].kind = "validate")
         => IF Lower(req'[r].role) \in {"tester", "admin"}
            THEN req'[r].wrote
                    => /\ db_bugs'[req'[r].bugId].validated
                       /\ req'[r].outcome.code # InsufficientRole
            ELSE /\ ~req'[r].wrote /\ req'[r].pc = "done"
                 /\ req'[r].outcome.code =
                        IF validate_object_id_fails(req'[r].bugId)
                        THEN 400 ELSE InsufficientRole
                 /\ db_bugs' = db_bugs]_vars

\* A tester validated the stored bug.
C11_Witness ==
    \E r \in StatusReq :
        /\ req[r].kind = "validate" /\ req[r].role = "tester" /\ req[r].wrote
        /\ db_bugs[req[r].bugId].validated

\* A developer was refused on the stored, still unvalidated bug.
C11_WitnessDenied ==
    \E r \in StatusReq :
        /\ req[r].kind = "validate" /\ req[r].role = "developer"
        /\ req[r].bugId = SeedMongoId /\ Denied(r, InsufficientRole)
        /\ ~db_bugs[SeedMongoId].validated

(* ========================= updatedAt: properties ======================= *)
\* The updatedAt the Collection DB holds for the seeded bug, as a clock reading.
StoredUpdatedAt(its) == fromisoformat(its[SeedBugId].updatedAt)

\* C12: no successful update of the bug (here the updatedAt touch with which
\* a create_comment request ends in 201) makes the bug's stored updatedAt
\* smaller than it was.
C12_UpdatedAtNeverDecreases ==
    [][\A r \in Req :
         (IsComment(r) /\ req[r].pc = "update_bug" /\ req'[r].pc = "done"
            /\ req'[r].outcome.code = 201)
         => StoredUpdatedAt(items') >= StoredUpdatedAt(items)]_vars

(* ====================== BugRepository: properties ====================== *)
BugUpdateOps == {"update_status", "update_assignment", "update_validation"}

\* C13: a call of update_status, update_assignment or update_validation
\* issues exactly one PUT (none when the id is blank), whose body carries the
\* target field and updatedAt; the store changes, if at all, in that one step
\* and then holds the new target value together with the new updatedAt, all
\* other fields as before. A read returns one state of the stored item.
C13_TargetAndUpdatedAtTogether ==
    [][\A r \in RepoReq :
         LET q == req'[r] IN
         /\ (req'[r] # req[r] /\ q.kind \in BugUpdateOps)
            => /\ Len(q.requests) = IF Strip(q.bugId) = "" THEN 0 ELSE 1
               /\ \A i \in 1..Len(q.requests) :
                    /\ q.requests[i].method = "PUT"
                    /\ DOMAIN q.requests[i].body = {q.target, "updatedAt"}
                    /\ q.requests[i].body[q.target] = q.value
                    /\ q.requests[i].body.updatedAt = isoformat(q.updated_at)
               /\ \A b \in ItemIds :
                    items'[b] # items[b]
                    => /\ b = q.bugId
                       /\ items'[b][q.target] = q.value
                       /\ items'[b].updatedAt = isoformat(q.updated_at)
                       /\ \A k \in (DOMAIN items[b]) \ {q.target, "updatedAt"} :
                            items'[b][k] = items[b][k]
         /\ (req'[r] # req[r] /\ q.kind = "get_by_id" /\ q.result.kind = "value")
            => /\ items' = items
               /\ q.result.value.status = items[q.bugId].status
               /\ q.result.value.validated = items[q.bugId].validated
               /\ q.result.value.updatedAt = fromisoformat(items[q.bugId].updatedAt)]_vars

\* A read returned the bug as an update_status call left it.
C13_Witness ==
    \E r \in RepoReq :
        /\ req[r].kind = "get_by_id" /\ req[r].result.kind = "value"
        /\ req[r].result.value.status = "Resolved"
        /\ req[r].result.value.updatedAt = MaxClock
        /\ req[r].result.value.assignedTo = NoneStr
        /\ ~req[r].result.value.validated

(* ================= concurrent status updates: properties =============== *)
\* The request has passed its checks and its update_one was applied.
Wrote(r) == req[r].kind = "update_status" /\ req[r].wrote
InFlight(r) == Wrote(r) /\ req[r].pc = "su_log"

\* C14: a status update that passes its checks writes its status whether or
\* not another request for the same bug is in flight after its own write;
\* that other request is left as it was and still ends without a rejection
\* (200, or the 500 of a failed activity call or re-read), and the stored
\* status is the one of the request that wrote last.
C14_LastWriteWins ==
    [][\A r \in Req :
         /\ (Free(r) /\ req'[r] # req[r] /\ req'[r].kind = "update_status"
                /\ req'[r].wrote)
            => /\ db_bugs'[req'[r].bugId].status = req'[r].status
               /\ db_bugs'[req'[r].bugId].updatedAt = req'[r].now
               /\ \A o \in Req \ {r} : req'[o] = req[o]
         /\ (InFlight(r) /\ req'[r].pc = "done")
            => /\ req'[r].outcome \in {Outcome(200, "Bug status updated"), StatusFailed}
               /\ db_bugs' = db_bugs
         /\ \A o \in Req \ {r} :
              (Wrote(r) /\ Wrote(o) /\ req[r].now < req[o].now)
                => db_bugs[req[o].bugId].status = req[o].status]_vars

\* Both requests are in flight after their writes of different statuses, and
\* the store holds the status of the one that wrote later.
C14_Witness ==
    \E r, o \in Req :
        /\ r # o /\ InFlight(r) /\ InFlight(o)
        /\ req[r].now < req[o].now /\ req[r].status # req[o].status
        /\ db_bugs[SeedMongoId].status = req[o].status

\* Both of them reported success.
C14_WitnessBothSucceed ==
    \E r, o \in Req :
        /\ r # o /\ Wrote(r) /\ Wrote(o)
        /\ req[r].now < req[o].now /\ req[r].status # req[o].status
        /\ req[r].outcome.code = 200 /\ req[o].outcome.code = 200
        /\ db_bugs[SeedMongoId].status = req[o].status

(* =================== AppFlyteCollectionDB: properties ================== *)
IsCall(r, op) == req[r].kind = op /\ req[r].pc = "done"
Sent(r) == Len(req[r].requests) > 0
TransportErrors == {"RequestError", "HTTPStatusError"}

\* C15: get_item_by_id, once its request is sent, returns None exactly when
\* the store answers 404, and raises a transport error for every other
\* non-success answer and when no answer arrives.
C15_AbsentNotError ==
    \A r \in ClientReq :
        (IsCall(r, "get_item_by_id") /\ Sent(r))
            => /\ (req[r].answer = 404) <=> (req[r].result = None)
               /\ (req[r].answer \in ErrorStatuses \cup {0})
                    <=> (req[r].result.kind = "raise")
               /\ req[r].result.kind = "raise"
                    => req[r].result.exc \in TransportErrors

\* The store answered 404 for an id it does not hold, and None came back.
C15_Witness ==
    \E r \in ClientReq :
        /\ IsCall(r, "get_item_by_id") /\ Sent(r) /\ req[r].id = MissingBugId
        /\ req[r].answer = 404 /\ req[r].result = None

\* C16: update_item on an id the store does not hold raises an error whose
\* kind differs from the kind raised for an empty id or an empty update set
\* (ValueError) and from the kinds of a transport failure.
C16_NotFoundKindDistinct ==
    \A r \in ClientReq :
        (IsCall(r, "update_item") /\ req[r].answer = 404)
            => /\ req[r].result.kind = "raise"
               /\ req[r].result.exc # "ValueError"
               /\ req[r].result.exc \notin TransportErrors

\* An update of an id the store does not hold was answered 404 and raised
\* ValueError, the kind of the argument checks.
C16_NotFoundRaisedValueError ==
    \E r \in ClientReq :
        /\ IsCall(r, "update_item") /\ Sent(r) /\ req[r].id = MissingBugId
        /\ req[r].answer = 404 /\ req[r].result = Raise("ValueError")

\* C17 (as stated): a create_item call whose data is None or the empty map
\* raises ValueError, sends nothing and leaves the store as it was.
C17_NoneOrEmptyRejected ==
    [][\A r \in ClientReq :
         (req'[r].kind = "create_item" /\ req'[r].arg \in {None, EmptyDict})
         => /\ req'[r].result = Raise("ValueError")
            /\ req'[r].requests = <<>>
            /\ items' = items /\ nextAuto' = nextAuto]_vars

\* C17 (amended): a create_item call whose data is None raises ValueError,
\* sends nothing and leaves the store as it was; for any other data, the
\* empty map included, exactly one POST carrying the data is sent.
C17_OnlyNoneRejected ==
    [][\A r \in ClientReq :
         req'[r].kind = "create_item"
         => IF req'[r].arg = None
            THEN /\ req'[r].result = Raise("ValueError")
                 /\ req'[r].requests = <<>>
                 /\ items' = items /\ nextAuto' = nextAuto
            ELSE /\ Len(req'[r].requests) = 1
                 /\ req'[r].requests[1].method = "POST"
                 /\ req'[r].requests[1].body = req'[r].arg]_vars

\* The empty map was posted and the store keeps an item for it.
C17_Witness ==
    \E r \in ClientReq :
        /\ IsCall(r, "create_item") /\ req[r].arg = EmptyDict /\ Sent(r)
        /\ req[r].result = Value(StoredItem(EmptyDict, AutoId(1)))
        /\ items[AutoId(1)] = StoredItem(EmptyDict, AutoId(1))

\* A None argument was rejected.
C17_WitnessNone ==
    \E r \in ClientReq :
        /\ IsCall(r, "create_item") /\ req[r].arg = None
        /\ req[r].result = Raise("ValueError") /\ ~Sent(r)

\* C18: get_all_items returns exactly the items the response contains, in
\* one flat sequence without envelopes, for each of the three shapes (so as
\* many as the response holds, zero included), and the empty sequence when
\* the collection is absent.
C18_ReturnsContainedItems ==
    \A r \in ClientReq :
        IsCall(r, "get_all_items")
            => /\ req[r].answer = 200 => req[r].result = Value(req[r].contained)
               /\ req[r].answer = 404 => req[r].result = Value(<<>>)

ClientOps ==
    {"create_item", "get_all_items", "get_item_by_id", "update_item", "delete_item"}

\* C19: a call of a client method sends at most one remote request: none
\* when an argument check fails, one otherwise, also when the request fails
\* (the failure is what the call raises).
C19_AtMostOneRequest ==
    \A r \in ClientReq :
        (req[r].kind \in ClientOps /\ req[r].pc = "done")
            => /\ Len(req[r].requests) <= 1
               /\ req[r].answer \in ErrorStatuses \cup {0}
                    => /\ Len(req[r].requests) = 1
                       /\ req[r].result.kind = "raise"
                       /\ req[r].result.exc \in TransportErrors

\* A request was answered 503; it was sent once and the call raised.
C19_Witness ==
    \E r \in ClientReq :
        /\ IsCall(r, "update_item") /\ req[r].answer = 503
        /\ Len(req[r].requests) = 1 /\ req[r].result = Raise("HTTPStatusError")

(* ========================= listings: properties ======================== *)
\* The discriminator of an item for the bug repository (the type field) and
\* for the project repository (the type inside the JSON of the description);
\* "" when there is none.
BugKind(item) == IF Has(item, "type") THEN item.type ELSE ""
ProjectKind(item) ==
    LET parsed == json_loads(IF Has(item, "description") THEN item.description ELSE "")
    IN  IF parsed.kind = "value" /\ parsed.value.t = "dict" /\ Has(parsed.value.v, "type")
        THEN parsed.value.v.type ELSE ""
KindFor(op, item) == IF op = "bug_get_all" THEN BugKind(item) ELSE ProjectKind(item)
Wanted(op) == IF op = "bug_get_all" THEN "bug" ELSE "project"

\* C20: a list operation over a collection that holds items of several
\* kinds does not fail because of them: it returns entities of items whose
\* discriminator is the repository's, and none of any other item.
C20_ListingFiltersByKind ==
    \A r \in ListReq :
        (req[r].kind \in {"bug_get_all", "project_get_all"} /\ req[r].answer = 200)
            => /\ req[r].result.kind = "value"
               /\ \A i \in 1..Len(req[r].listing) :
                    LET item == req[r].listing[i] IN
                    KindFor(req[r].kind, item) # Wanted(req[r].kind)
                        => \A k \in 1..Len(req[r].result.value) :
                                req[r].result.value[k].id # item["__auto_id__"]

(* =========================== scans: properties ========================= *)
IsScan(r) == req[r].kind \in ScanOps /\ req[r].pc = "done"

\* The kind a list operation looks for, the kind an item shows to it, and
\* what the repository's decoder makes of the item.
ScanWanted(op) ==
    CASE op = "bug_get_all" -> "bug"
      [] op = "comment_get_by_bug_id" -> "comment"
      [] op = "activity_get_by_bug_id" -> "activity_log"
      [] op = "project_get_all" -> "project"
      [] OTHER -> "user"
ScanKind(op, item) ==
    IF op \in {"project_get_all", "user_get_all"} THEN ProjectKind(item) ELSE BugKind(item)
ScanDecoded(op, item, now) ==
    CASE op = "bug_get_all" -> collection_item_to_bug(item, now)
      [] op = "comment_get_by_bug_id" -> collection_item_to_comment(item, now)
      [] op = "activity_get_by_bug_id" -> collection_item_to_activity_log(item, now)
      [] op = "project_get_all" -> collection_item_to_project(item, now)
      [] OTHER -> collection_item_to_user_text(item, now)

\* The positions of the scanned collection that hold an item of the
\* operation's kind that fails to decode, resp. that decodes.
CorruptAt(r) ==
    {i \in 1..Len(req[r].listing) :
        /\ ScanKind(req[r].kind, req[r].listing[i]) = ScanWanted(req[r].kind)
        /\ ScanDecoded(req[r].kind, req[r].listing[i], req[r].now).kind = "raise"}
ValidAt(r) ==
    {i \in 1..Len(req[r].listing) :
        /\ ScanKind(req[r].kind, req[r].listing[i]) = ScanWanted(req[r].kind)
        /\ ScanDecoded(req[r].kind, req[r].listing[i], req[r].now).kind = "value"}

\* Whether a decoded entity passes the arguments of the operation.
Selected(op, args, e) ==
    CASE op = "bug_get_all" ->
            /\ args.project_id # Omitted => e.projectId = args.project_id
            /\ args.status # Omitted => e.status = args.status
            /\ args.assigned_to # Omitted => e.assignedTo = args.assigned_to
      [] op \in {"comment_get_by_bug_id", "activity_get_by_bug_id"} ->
            e.bugId = args.project_id
      [] OTHER -> TRUE

\* C21: a list operation of any repository over a collection with one item
\* of its kind that fails to decode succeeds, and returns every item of its
\* kind that decodes and passes the arguments; the corrupt item is skipped.
C21_CorruptItemSkipped ==
    \A r \in ScanReq :
        (IsScan(r) /\ req[r].answer = 200 /\ Cardinality(CorruptAt(r)) = 1)
            => /\ req[r].result.kind = "value"
               /\ \A i \in ValidAt(r) :
                    LET e == ScanDecoded(req[r].kind, req[r].listing[i], req[r].now).value
                    IN  Selected(req[r].kind, req[r].args, e)
                            => \E k \in 1..Len(req[r].result.value) :
                                    req[r].result.value[k] = e

(* ====================== single-item reads: properties ================== *)
IsRead(r) == req[r].kind \in ReadOps /\ req[r].pc = "done"

\* The requested item is stored, the store returned it, and its payload is
\* no JSON, is JSON but no object, or lacks a required attribute.
MalformedRead(r) ==
    /\ IsRead(r) /\ req[r].stored # NoItem
    /\ req[r].answer = 200
    /\ LET parsed == json_loads(req[r].stored.description) IN
       IF parsed.kind = "raise" \/ parsed.value.t # "dict" THEN TRUE
       ELSE MissingRequired(parsed.value.v,
                            IF req[r].kind = "project_get_by_id"
                            THEN {"description", "createdBy"} ELSE {"email", "role"})

\* C22: get_by_id on a stored item whose payload is unparsable, is no JSON
\* object or lacks a required attribute raises a malformed-data error: it
\* neither returns absent nor an entity, and no other kind of error leaves
\* the method.
C22_MalformedReadRaises ==
    \A r \in CodecReq :
        MalformedRead(r) => req[r].result.kind = "raise" /\ req[r].result.exc \in ValueErrors

\* A project whose payload has no createdBy was read and reported absent.
C22_AbsentForMalformedProject ==
    \E r \in CodecReq :
        /\ MalformedRead(r) /\ req[r].kind = "project_get_by_id"
        /\ req[r].result = None

\* A project and a user whose payload reads 42: data.get raises
\* AttributeError, which no handler of either get_by_id catches.
C22_AttributeErrorForNonObject ==
    \E r \in CodecReq :
        /\ MalformedRead(r)
        /\ req[r].stored.description = ToString(42)
        /\ req[r].result = Raise("AttributeError")

(* ======================== ordered scans: properties ==================== *)
\* The ids of the stored items of the operation's kind whose bugId is the
\* argument, and the ids of the returned entities.
StoredOfBug(r) ==
    {req[r].listing[i]["__auto_id__"] : i \in
        {j \in 1..Len(req[r].listing) :
            /\ BugKind(req[r].listing[j]) = ScanWanted(req[r].kind)
            /\ req[r].listing[j].bugId = req[r].args.project_id}}
ReturnedIds(r) == {req[r].result.value[k].id : k \in 1..Len(req[r].result.value)}
Returned(r, op) == IsScan(r) /\ req[r].kind = op /\ req[r].result.kind = "value"

\* C23: whatever the stored order, the comments CommentRepository.get_by_bug_id
\* returns are in ascending createdAt order, the logs
\* ActivityLogRepository.get_by_bug_id returns are in descending timestamp
\* order, and each result holds exactly the stored items of the kind whose
\* bugId is the argument, each once.
C23_OrderedByTime ==
    \A r \in ScanReq :
        /\ Returned(r, "comment_get_by_bug_id")
            => LET res == req[r].result.value IN
               /\ \A i, j \in 1..Len(res) : i < j => res[i].createdAt <= res[j].createdAt
               /\ ReturnedIds(r) = StoredOfBug(r)
               /\ Len(res) = Cardinality(StoredOfBug(r))
        /\ Returned(r, "activity_get_by_bug_id")
            => LET res == req[r].result.value IN
               /\ \A i, j \in 1..Len(res) : i < j => res[i].timestamp >= res[j].timestamp
               /\ ReturnedIds(r) = StoredOfBug(r)
               /\ Len(res) = Cardinality(StoredOfBug(r))

\* Two comments stored newest first were returned oldest first.
C23_Witness ==
    \E r \in ScanReq :
        /\ Returned(r, "comment_get_by_bug_id")
        /\ req[r].listing = <<ScanCommentLate, ScanCommentEarly>>
        /\ Len(req[r].result.value) = 2
        /\ req[r].result.value[1].id = "c2" /\ req[r].result.value[2].id = "c1"

\* Two logs stored oldest first were returned newest first.
C23_WitnessLogs ==
    \E r \in ScanReq :
        /\ Returned(r, "activity_get_by_bug_id")
        /\ req[r].listing = <<ScanLogEarly, ScanLogLate>>
        /\ Len(req[r].result.value) = 2
        /\ req[r].result.value[1].id = "a2" /\ req[r].result.value[2].id = "a1"

(* ======================= filtered scans: properties ==================== *)
\* The stored bug items that satisfy every supplied filter.
PassesFilters(item, args) ==
    /\ args.project_id # Omitted => item.projectId = args.project_id
    /\ args.status # Omitted => item.status = args.status
    /\ args.assigned_to # Omitted
        => Has(item, "assignedTo") /\ item.assignedTo = args.assigned_to
StoredBugs(r) ==
    {i \in 1..Len(req[r].listing) : BugKind(req[r].listing[i]) = "bug"}
FilteredIds(r) ==
    {req[r].listing[i]["__auto_id__"] : i \in
        {j \in StoredBugs(r) : PassesFilters(req[r].listing[j], req[r].args)}}

\* C24: BugRepository.get_all returns exactly the stored bugs that satisfy
\* all supplied filters together (projectId, status, assignedTo), each once;
\* an omitted filter restricts nothing, so without filters it returns every
\* bug of the collection.
C24_FiltersConjoined ==
    \A r \in ScanReq :
        Returned(r, "bug_get_all")
            => /\ ReturnedIds(r) = FilteredIds(r)
               /\ Len(req[r].result.value) = Cardinality(FilteredIds(r))
               /\ req[r].args = NoArgs
                    => Len(req[r].result.value) = Cardinality(StoredBugs(r))

\* Of two bugs of one project, the status and assignee filters together
\* selected one.
C24_Witness ==
    \E r \in ScanReq :
        /\ Returned(r, "bug_get_all")
        /\ req[r].listing = <<ScanBugA, ScanBugB>>
        /\ req[r].args = [project_id |-> "p1", status |-> "Closed", assigned_to |-> "u2"]
        /\ ReturnedIds(r) = {"b2"}

\* Without filters both stored bugs were returned.
C24_WitnessNoFilter ==
    \E r \in ScanReq :
        /\ Returned(r, "bug_get_all") /\ req[r].args = NoArgs
        /\ req[r].listing = <<ScanBugC, ScanBugA>>
        /\ Len(req[r].result.value) = 2

(* ============================ codecs: properties ======================= *)
RoundTripped(r) == req[r].kind = "roundtrip" /\ req[r].pc = "done"
\* A create() whose POST the store answered with the stored item.
CreatedOk(r) == req[r].kind = "create" /\ req[r].pc = "done" /\ req[r].answer = 200

\* C25: for a valid bug, comment, activity log or project e, decoding the
\* fields map that encoding e produces yields an entity with the attributes
\* of e, for the native fields of the first three and for the JSON payload
\* in the description of a project; and the entity create() returns, decoded
\* from the item the store echoes, has the attributes of e and the
\* identifier the store assigned.
C25_RoundTrip ==
    \A r \in CodecReq :
        /\ RoundTripped(r) => req[r].result = Value(req[r].entity)
        /\ CreatedOk(r)
            => req[r].result = Value([req[r].entity EXCEPT !.id = req[r].storedId])

\* A closed, validated, assigned and tagged bug with sub-second timestamps
\* went through the codec.
C25_Witness ==
    \E r \in CodecReq :
        /\ RoundTripped(r) /\ req[r].entity_kind = "bug"
        /\ req[r].entity.tags = <<"x">> /\ req[r].entity.assignedTo = "u2"
        /\ req[r].entity.status = "Closed" /\ req[r].entity.validated
        /\ UsecOf(req[r].entity.createdAt) # 0 /\ req[r].entity.updatedAt = 2
        /\ req[r].result.kind = "value"

\* A project went through the payload encoding.
C25_WitnessProject ==
    \E r \in CodecReq :
        /\ RoundTripped(r) /\ req[r].entity_kind = "project"
        /\ req[r].entity.createdBy = "u2" /\ UsecOf(req[r].entity.createdAt) # 0
        /\ req[r].result.kind = "value"

Decoded(r) == req[r].kind = "decode" /\ req[r].pc = "done"

\* C26: for every entity kind, the entity decoded from an item that carries
\* both _id and __auto_id__ has the value of _id as its id; from an item
\* with one of the two keys, the value of that key.
C26_ExplicitIdPreferred ==
    \A r \in CodecReq :
        (Decoded(r) /\ req[r].keys # {})
            => /\ req[r].result.kind = "value"
               /\ req[r].result.value.id =
                    IF "_id" \in req[r].keys THEN ExplicitId ELSE AutoId(1)

(* ========================= lifecycle: properties ======================= *)
StoredBug == db_bugs[SeedMongoId]
\* The bugs the collection holds, and the bug create_bug has inserted.
StoredBugIds == {id \in MongoIds : db_bugs[id] # NoDoc}
CreatedBugId == CHOOSE id \in CreatedMongoIds : TRUE
BugCreated == db_bugs[CreatedBugId] # NoDoc
CreatedBug == db_bugs[CreatedBugId]

\* C27: starting from the created bug (status Open, validated false), after
\* any interleaving of status updates, validations and assignments, a bug
\* stored with status Closed is stored with validated true.
C27_ClosedImpliesValidated ==
    \A id \in StoredBugIds :
        db_bugs[id].status = "Closed" => db_bugs[id].validated = TRUE

\* The bug create_bug inserted was closed while an assignment that had read
\* it before was still waiting for get_user.
C27_Witness ==
    /\ BugCreated /\ CreatedBug.status = "Closed" /\ CreatedBug.validated
    /\ \E r \in Req : /\ req[r].kind = "assign" /\ req[r].pc = "ab_user"
                       /\ req[r].bugId = CreatedBugId

\* The request of slot r writes in this step: its handler passes update_one
\* and goes on to log_activity.
Writes(r) == req'[r].pc \in {"su_log", "vb_log", "ab_log"} /\ req[r].pc # req'[r].pc
WritesStatus(r) == Writes(r) /\ req'[r].kind = "update_status"

\* C28: under any interleaving of status updates, a step in which the
\* request of a role other than admin writes never finds the stored status
\* of its bug Closed, so the status of a bug leaves Closed only by the write
\* of an admin's request for that bug.
C28_NonAdminNeverLeavesClosed ==
    [][/\ \A r \in Req :
            (WritesStatus(r) /\ Lower(req'[r].role) # "admin")
                => db_bugs[req'[r].bugId].status # "Closed"
       /\ \A id \in StoredBugIds :
            (db_bugs[id].status = "Closed" /\ db_bugs'[id].status # "Closed")
                => \E r \in Req : /\ WritesStatus(r) /\ req'[r].bugId = id
                                   /\ Lower(req'[r].role) = "admin"]_vars

\* While the tester's closing request was waiting for log_activity, a
\* developer's status update read Closed and was denied.
C28_Witness ==
    \E r, o \in Req :
        /\ r # o
        /\ req[o].kind = "update_status" /\ req[o].pc = "su_log"
        /\ req[o].status = "Closed" /\ req[o].role = "tester"
        /\ req[r].kind = "update_status" /\ req[r].role = "developer"
        /\ req[r].curStatus = "Closed" /\ Denied(r, InsufficientRole)
        /\ BugCreated /\ CreatedBug.status = "Closed"

\* An admin's status update has moved the bug out of Closed.
C28_WitnessAdmin ==
    \E r \in Req :
        /\ req[r].kind = "update_status" /\ req[r].wrote /\ req[r].role = "admin"
        /\ req[r].curStatus = "Closed" /\ req[r].status = "Open"
        /\ BugCreated /\ CreatedBug.status = "Open"

(* ======================= frame conditions: properties ================== *)
\* The request of slot r ends in this step with a denial of the role checks.
DeniedNow(r) ==
    /\ req'[r] # req[r] /\ req'[r].pc = "done"
    /\ req'[r].kind \in {"update_status", "validate"}
    /\ req'[r].outcome.code \in {InsufficientRole, PreconditionNotMet}

\* What the write of the request of slot r may change in its bug.
WrittenDoc(r) ==
    LET doc == db_bugs[req'[r].bugId] IN
    CASE req'[r].kind = "update_status" ->
            [doc EXCEPT !.status = req'[r].status, !.updatedAt = clock]
      [] req'[r].kind = "validate" ->
            [doc EXCEPT !.validated = TRUE, !.updatedAt = clock]
      [] OTHER ->
            [doc EXCEPT !.assignedTo = req'[r].assignedTo, !.updatedAt = clock]

\* C29: a status update or validation that is denied leaves the bug as it
\* is (status, validated, assignedTo, updatedAt) and records no activity; the
\* write of a status update changes only status and updatedAt, that of a
\* validation only validated and updatedAt, that of an assignment only
\* assignedTo and updatedAt; no other step of a request changes a bug.
C29_FrameConditions ==
    [][\A r \in StatusReq :
         /\ DeniedNow(r)
              => /\ db_bugs' = db_bugs /\ activities' = activities
                 /\ ~req'[r].wrote /\ req[r].pc \notin {"su_log", "vb_log", "ab_log"}
         /\ Writes(r)
              => db_bugs' = [db_bugs EXCEPT ![req'[r].bugId] = WrittenDoc(r)]
         /\ ~Writes(r) => db_bugs' = db_bugs]_vars

\* After the bug had been assigned, validated and closed, a developer's
\* status update was denied: the bug is as the three writes left it.
C29_Witness ==
    \E r \in StatusReq :
        /\ req[r].kind = "update_status" /\ Denied(r, InsufficientRole)
        /\ req[r].role = "developer" /\ req[r].curStatus = "Closed"
        /\ StoredBug.status = "Closed" /\ StoredBug.validated
        /\ StoredBug.assignedTo = SeedUserId
        /\ StoredBug.updatedAt > 0 /\ StoredBug.updatedAt < clock

\* An assignment succeeded on the new bug after the clock had moved.
C29_WitnessAssign ==
    \E r \in StatusReq :
        /\ req[r].kind = "assign" /\ req[r].pc = "done" /\ req[r].outcome.code = 200
        /\ StoredBug = [NewBugDoc(0) EXCEPT !.assignedTo = SeedUserId, !.updatedAt = req[r].now]
        /\ req[r].now > 0

(* ========================== audit trail: properties ==================== *)
\* C30: a status update that reports success has recorded a status_changed
\* activity for its bug, also when the call of the activity service failed.
C30_SuccessHasAuditEntry ==
    \A r \in StatusReq :
        (req[r].kind = "update_status" /\ req[r].pc = "done" /\ req[r].outcome.code = 200)
            => Activity(r, "status_changed", req[r].bugId) \in activities
====
